---- MODULE Spec2Model ----
(***************************************************************************)
(* The Freshdesk activity dashboard, acquisition and aggregation:           *)
(*   - RateLimiter (services/apiUtils.ts): FIFO queue, in-flight counter,  *)
(*     sliding timestamp log, global backoff deadline, re-check timers;    *)
(*   - fetchWithRetry (services/apiUtils.ts): bounded retries through the  *)
(*     limiter;                                                            *)
(*   - getTicketsUpdatedInPeriod (freshdesk service): list -> search       *)
(*     fallback;                                                           *)
(*   - fetchPaginatedFreshdeskAPI (freshdesk service): list and search     *)
(*     pagination;                                                         *)
(*   - getCachedConversations / cacheConversations (cacheService.ts);      *)
(*   - getActiveTickets (freshdesk service): per-group queries, merged;    *)
(*   - calculateAllAgentActivity (utils/logicUtils.ts): the aggregation;   *)
(*   - handleGenerateReport (App.tsx): listing, batch augmentation,        *)
(*     active tickets, publication, cancellation;                          *)
(*   - one ticket's augmentation against a helpdesk whose tickets change.  *)
(* Time is Date.now() in milliseconds.                                     *)
(***************************************************************************)
EXTENDS Integers, Sequences, FiniteSets, Bags, TLC

VARIABLES
    \* ---- RateLimiter fields (apiUtils.ts 10-17)
    queue,              \* FIFO of task ids waiting to start
    activeRequests,     \* in-flight counter
    requestTimestamps,  \* start times, pruned to the window on each admission
    globalRetryAfter,   \* global backoff deadline (ms)
    maxConcurrent, windowMs, maxPerWindow,
    \* ---- event loop
    now,                \* Date.now()
    timers,             \* pending setTimeout(() => processQueue()) due times (a bag)
    \* ---- tasks handed to schedule()
    nextTask,           \* tasks are numbered in the order schedule() is called
    taskState,          \* "new" | "queued" | "running" | "settled"
    promise,            \* settlement of the promise schedule() returned
    outcome,            \* what the task itself produced
    \* ---- history
    startLog,           \* one entry per task start: task, time, backoff promise then in force
    doneLog,            \* one entry per settled task: task, time
    promisedUntil,      \* latest t + s*1000 over the setGlobalBackoff(s) calls made so far
    backoffBudget,      \* setGlobalBackoff calls the environment may still make
    \* ---- fetchWithRetry calls
    calls,              \* per call: pc, attempt, maxRetries, wakeAt, tasks, result
    \* ---- getTicketsUpdatedInPeriod
    tix,                \* pc, window (year, from, to), endpoints requested, page-1 outcomes, error, result
    \* ---- fetchPaginatedFreshdeskAPI
    pager,              \* one call: mode, page cap, server, pages requested and settled, allResults
    \* ---- handleGenerateReport (App.tsx)
    report,             \* one report generation: phase, ticket lists, batch position, conversations
    \* ---- localStorage (cacheService.ts)
    store,              \* conversation cache: ticket id -> <<>> or <<[timestamp, data]>>
    \* ---- getActiveTickets
    active,             \* per-group query results and the merged answer
    \* ---- calculateAllAgentActivity (logicUtils.ts)
    agg,                \* input tickets, loop positions, agentActivity map, summary
    \* ---- the helpdesk, as one ticket's augmentation sees it
    server              \* per ticket: thread, updated_at, the augmentation's position

limiterVars == <<queue, activeRequests, requestTimestamps, globalRetryAfter,
                 maxConcurrent, windowMs, maxPerWindow>>
taskVars == <<nextTask, taskState, promise, outcome>>
histVars == <<startLog, doneLog, promisedUntil>>
appVars == <<pager, report, store, active, agg, server>>
acquisitionVars == <<limiterVars, now, timers, taskVars, histVars, backoffBudget, calls, tix>>
vars == <<acquisitionVars, appVars>>

\* ---------------------------------------------------------------- bounds
NumTasks == 3
MaxTime == 2000
MaxN == 2
MaxM == 2
TickSteps == {500}
MaxBackoffCalls == 2
LiveTasks == 2
LiveBackoffCalls == 1
BackoffSeconds == {0, 2}
NumCalls == 2
FetchTasks == 4
JitterMs == {0}
FromYears == {2024, 2025}
Windows == {<<3, 7>>, <<3, 9>>}

\* ------------------------------------------------------- program constants
DEFAULT_MAX_CONCURRENT == 5
DEFAULT_WINDOW_MS == 1000
DEFAULT_MAX_PER_WINDOW == 10
BACKOFF_PAD_MS == 1000
BACKOFF_TIMER_SLACK_MS == 500
WINDOW_TIMER_SLACK_MS == 50
DEFAULT_RETRY_AFTER == 5
RETRY_BASE_MS == 1000
DEFAULT_MAX_RETRIES == 2
EXECUTE_REQUEST_RETRIES == 1
RetryBudgets == {EXECUTE_REQUEST_RETRIES, DEFAULT_MAX_RETRIES}

Tasks == DOMAIN taskState

IdlePager ==
    [pc |-> "idle", search |-> FALSE, maxPages |-> 0, K |-> 0, last |-> 0, total |-> 0,
     page |-> 0, allResults |-> <<>>, first |-> "pending", settled |-> <<>>,
     requested |-> <<>>, failures |-> 0]
IdleReport ==
    [pc |-> "idle", groups |-> 0, aborted |-> FALSE, abortedAt |-> "none",
     lists |-> <<>>, convs |-> <<>>, li |-> 0, i |-> 0, failedAt |-> "none",
     engineRan |-> FALSE, dashboard |-> FALSE]
EmptyStore ==
    [items |-> <<>>, last |-> [ticket |-> 0, updatedAt |-> 0, cached |-> <<>>,
                               result |-> [hit |-> FALSE, data |-> <<>>]], flip |-> 0]
IdleActive ==
    [pc |-> "idle", groups |-> 0, results |-> <<>>, order |-> <<>>, totalCount |-> 0,
     tickets |-> <<>>, total |-> 0]
IdleAgg ==
    [pc |-> "idle", tickets |-> <<>>, tz |-> 0, start |-> 0, end |-> 0, ti |-> 0,
     activity |-> <<>>, summary |-> <<>>]

\* Tickets without conversations, none being augmented.
IdleServer ==
    [thread |-> [t \in {1, 2} |-> <<>>], updatedAt |-> [t \in {1, 2} |-> 0],
     pc |-> [t \in {1, 2} |-> "idle"], read |-> [t \in {1, 2} |-> <<>>]]

\* getTicketsUpdatedInPeriod not yet called.
IdleTickets ==
    [pc |-> "idle", year |-> 0, from |-> 0, to |-> 0, requests |-> <<>>, primary |-> <<>>, fallback |-> <<>>,
     error |-> <<>>, result |-> <<>>]
Pending == [state |-> "pending", v |-> "none"]
Outcomes == {[state |-> "resolved", v |-> "r1"],
             [state |-> "rejected", v |-> "e1"]}

Max(a, b) == IF a >= b THEN a ELSE b

RECURSIVE SelectRecent(_, _, _)
\* requestTimestamps.filter(t => now - t < windowMs)
SelectRecent(ts, t, w) ==
    IF ts = <<>> THEN <<>>
    ELSE IF t - Head(ts) < w THEN <<Head(ts)>> \o SelectRecent(Tail(ts), t, w)
         ELSE SelectRecent(Tail(ts), t, w)

\* ------------------------------------------------------------ RateLimiter
\* The limiter fields one handler run reads and writes, as a record.
Limiter == [queue |-> queue, active |-> activeRequests, stamps |-> requestTimestamps,
            timers |-> timers, started |-> <<>>]

\* now < this.globalRetryAfter
BackoffActive == now < globalRetryAfter

ConcurrencyFullOffByOne(l) == l.active > maxConcurrent

\* if (this.activeRequests >= this.maxConcurrent) return
ConcurrencyFull(l) == l.active >= maxConcurrent

WindowFullOffByOne(ts) == Len(ts) > maxPerWindow

\* this.requestTimestamps.length >= this.maxPerWindow
WindowFull(ts) == Len(ts) >= maxPerWindow

\* Date.now() + (seconds * 1000) + 1000
BackoffDeadline(s) == now + (s * 1000) + BACKOFF_PAD_MS

BackoffNoRecheck(l) == l

\* setTimeout(() => this.processQueue(), waitTime + 500), waitTime = globalRetryAfter - now
BackoffRecheck(l) ==
    [l EXCEPT !.timers = @ (+) SetToBag({now + (globalRetryAfter - now) + BACKOFF_TIMER_SLACK_MS})]

\* setTimeout(() => this.processQueue(), windowMs - (now - oldest) + 50)
WindowRecheck(l, ts) ==
    [l EXCEPT !.stamps = ts,
              !.timers = @ (+) SetToBag({now + (windowMs - (now - ts[1])) + WINDOW_TIMER_SLACK_MS})]

StartHeadNoStamp(l, ts) ==
    [l EXCEPT !.queue = Tail(l.queue),
              !.active = l.active + 1,
              !.stamps = ts,
              !.started = Append(l.started, Head(l.queue))]

\* The newest queued task is taken instead of the oldest.
StartNewest(l, ts) ==
    [l EXCEPT !.queue = SubSeq(l.queue, 1, Len(l.queue) - 1),
              !.active = l.active + 1,
              !.stamps = Append(ts, now),
              !.started = Append(l.started, l.queue[Len(l.queue)])]

\* queue.shift(); activeRequests++; requestTimestamps.push(Date.now()); item.task()
StartHead(l, ts) ==
    [l EXCEPT !.queue = Tail(l.queue),
              !.active = l.active + 1,
              !.stamps = Append(ts, now),
              !.started = Append(l.started, Head(l.queue))]

\* processQueue(): one pass; starts at most one task.
ProcessQueue(l) ==
    IF BackoffActive THEN BackoffRecheck(l)
    ELSE IF ConcurrencyFull(l) THEN l
    ELSE LET ts == SelectRecent(l.stamps, now, windowMs) IN
         IF WindowFull(ts) THEN WindowRecheck(l, ts)
         ELSE IF l.queue = <<>> THEN [l EXCEPT !.stamps = ts]
         ELSE StartHead(l, ts)

\* try { item.resolve(await item.task()) } catch (err) { item.reject(err) }
PromiseSettlement(o) ==
    IF o.state = "resolved" THEN [state |-> "resolved", v |-> o.v]
    ELSE [state |-> "rejected", v |-> o.v]

ReleaseSlotNoRecheck(l) == [l EXCEPT !.active = l.active - 1]

\* The finally block of processQueue: release the slot, re-evaluate the queue.
ReleaseSlot(l) == ProcessQueue([l EXCEPT !.active = l.active - 1])

StartEntries(l) ==
    [i \in 1..Len(l.started) |->
        [task |-> l.started[i], at |-> now, promised |-> promisedUntil]]

\* Writes the limiter record back; ts is the task-state function before the starts.
Commit(l, ts) ==
    /\ queue' = l.queue
    /\ activeRequests' = l.active
    /\ requestTimestamps' = l.stamps
    /\ timers' = l.timers
    /\ taskState' = [k \in Tasks |->
                        IF \E i \in 1..Len(l.started) : l.started[i] = k
                        THEN "running" ELSE ts[k]]
    /\ startLog' = startLog \o StartEntries(l)

\* Due times of everything a setTimeout is pending for.
PendingDue ==
    BagToSet(timers) \cup {calls[c].wakeAt : c \in {x \in DOMAIN calls : calls[x].pc = "sleeping"}}

\* ---------------------------------------------------------------- actions
\* schedule(task): push, then processQueue().
Schedule ==
    /\ nextTask \in Tasks
    /\ LET k == nextTask
           l == ProcessQueue([Limiter EXCEPT !.queue = Append(queue, k)])
       IN  Commit(l, [taskState EXCEPT ![k] = "queued"])
    /\ nextTask' = nextTask + 1
    /\ UNCHANGED <<globalRetryAfter, maxConcurrent, windowMs, maxPerWindow, now,
                   promise, outcome, doneLog, promisedUntil, backoffBudget, calls, tix, appVars>>

RECURSIVE ScheduleAll(_, _, _)
\* schedule(k), schedule(k+1), ..., schedule(last) in one synchronous run.
ScheduleAll(l, k, last) ==
    IF k > last THEN l
    ELSE ScheduleAll(ProcessQueue([l EXCEPT !.queue = Append(l.queue, k)]), k + 1, last)

\* Every task is handed to schedule() in the same turn of the event loop.
ScheduleBurst ==
    /\ nextTask = 1
    /\ Commit(ScheduleAll(Limiter, 1, Len(taskState)), [k \in Tasks |-> "queued"])
    /\ nextTask' = Len(taskState) + 1
    /\ UNCHANGED <<globalRetryAfter, maxConcurrent, windowMs, maxPerWindow, now,
                   promise, outcome, doneLog, promisedUntil, backoffBudget, calls, tix, appVars>>

\* A running task settles: item.resolve / item.reject, then the finally block.
Settle(k, o) ==
    /\ taskState[k] = "running"
    /\ outcome' = [outcome EXCEPT ![k] = o]
    /\ promise' = [promise EXCEPT ![k] = PromiseSettlement(o)]
    /\ doneLog' = Append(doneLog, [task |-> k, at |-> now])
    /\ Commit(ReleaseSlot(Limiter), [taskState EXCEPT ![k] = "settled"])
    /\ UNCHANGED <<globalRetryAfter, maxConcurrent, windowMs, maxPerWindow, now,
                   nextTask, promisedUntil, backoffBudget, calls, tix, appVars>>

\* A due re-check timer fires: processQueue().
TimerFire(d) ==
    /\ BagIn(d, timers)
    /\ d <= now
    /\ Commit(ProcessQueue([Limiter EXCEPT !.timers = timers (-) SetToBag({d})]), taskState)
    /\ UNCHANGED <<globalRetryAfter, maxConcurrent, windowMs, maxPerWindow, now,
                   nextTask, promise, outcome, doneLog, promisedUntil, backoffBudget, calls, tix, appVars>>

\* setGlobalBackoff(seconds)
SetGlobalBackoff(s) ==
    /\ backoffBudget > 0
    /\ backoffBudget' = backoffBudget - 1
    /\ globalRetryAfter' = BackoffDeadline(s)
    /\ promisedUntil' = Max(promisedUntil, now + s * 1000)
    /\ UNCHANGED <<queue, activeRequests, requestTimestamps, maxConcurrent, windowMs,
                   maxPerWindow, now, timers, taskVars, startLog, doneLog, calls, tix, appVars>>

\* The clock advances.
Tick(d) ==
    /\ now < MaxTime
    /\ now' = now + d
    /\ UNCHANGED <<limiterVars, timers, taskVars, histVars, backoffBudget, calls, tix, appVars>>

\* The clock runs on to the next pending timer.
Leap ==
    /\ \E t \in PendingDue : t > now
    /\ now' = CHOOSE t \in PendingDue : t > now /\ \A u \in PendingDue : u > now => t <= u
    /\ UNCHANGED <<limiterVars, timers, taskVars, histVars, backoffBudget, calls, tix, appVars>>

\* Past MaxTime the clock still runs, from one pending timer to the next.
Await == now >= MaxTime /\ Leap

\* The state right after construction, n tasks yet to be handed to schedule().
Constructed(n) ==
    /\ queue = <<>>
    /\ activeRequests = 0
    /\ requestTimestamps = <<>>
    /\ globalRetryAfter = 0
    /\ windowMs = DEFAULT_WINDOW_MS
    /\ now = 0
    /\ timers = EmptyBag
    /\ nextTask = 1
    /\ taskState = [k \in 1..n |-> "new"]
    /\ promise = [k \in 1..n |-> Pending]
    /\ outcome = [k \in 1..n |-> Pending]
    /\ startLog = <<>>
    /\ doneLog = <<>>
    /\ promisedUntil = 0
    /\ calls = <<>>
    /\ tix = IdleTickets
    /\ pager = IdlePager
    /\ report = IdleReport
    /\ store = EmptyStore
    /\ active = IdleActive
    /\ agg = IdleAgg
    /\ server = IdleServer

Init ==
    /\ Constructed(NumTasks)
    /\ maxConcurrent \in 1..MaxN
    /\ maxPerWindow \in 1..MaxM
    /\ backoffBudget = MaxBackoffCalls

Next ==
    \/ Schedule
    \/ \E k \in Tasks, o \in Outcomes : Settle(k, o)
    \/ \E d \in DOMAIN timers : TimerFire(d)
    \/ \E s \in BackoffSeconds : SetGlobalBackoff(s)
    \/ \E d \in TickSteps : Tick(d)

Spec == Init /\ [][Next]_vars

\* The limiter with a clock that never stops short of a pending timer, timers that
\* fire once due, and tasks that settle once started.
InitLive ==
    /\ Constructed(LiveTasks)
    /\ maxConcurrent \in 1..MaxN
    /\ maxPerWindow \in 1..MaxM
    /\ backoffBudget = LiveBackoffCalls

NextLive ==
    \/ Next
    \/ Await

Fairness ==
    /\ WF_vars((\E d \in TickSteps : Tick(d)) \/ Await)
    /\ WF_vars(\E d \in DOMAIN timers : TimerFire(d))
    /\ \A k \in 1..LiveTasks : WF_vars(\E o \in Outcomes : Settle(k, o))

SpecLive == InitLive /\ [][NextLive]_vars /\ Fairness

\* The scenario of the spec's section 8: N=2, M=3, W=1000 ms, 5 tasks handed over at once.
InitScenario ==
    /\ Constructed(5)
    /\ maxConcurrent = 2
    /\ maxPerWindow = 3
    /\ backoffBudget = 0

NextScenario ==
    \/ ScheduleBurst
    \/ \E k \in Tasks, o \in Outcomes : Settle(k, o)
    \/ \E d \in DOMAIN timers : TimerFire(d)
    \/ \E d \in TickSteps : Tick(d)

SpecScenario == InitScenario /\ [][NextScenario]_vars

\* ---------------------------------------------------------- fetchWithRetry
\* A message is the sequence of its phrases; msg.includes(p) finds the phrase.
Includes(msg, phrase) == \E i \in DOMAIN msg : msg[i] = phrase

Response(status, json, retryAfter) ==
    [status |-> status, json |-> json, retryAfter |-> retryAfter]

\* What fetch(url, options) can produce: a response (status, JSON content type or
\* not, Retry-After header as <<seconds>> or <<>> when absent) or a thrown error.
ServerOutcomes ==
    {[state |-> "resolved", v |-> Response(200, TRUE, <<>>)],
     [state |-> "resolved", v |-> Response(404, TRUE, <<>>)],
     [state |-> "resolved", v |-> Response(404, FALSE, <<>>)],
     [state |-> "resolved", v |-> Response(429, TRUE, <<1>>)],
     [state |-> "resolved", v |-> Response(503, FALSE, <<>>)],
     [state |-> "rejected", v |-> [name |-> "TypeError", msg |-> <<"Failed to fetch">>]],
     [state |-> "rejected", v |-> [name |-> "AbortError", msg |-> <<"The user aborted a request">>]]}

BackendError ==
    [name |-> "Error", msg |-> <<"Backend Error", "The proxy server returned 404">>]
ServerBusyError ==
    [name |-> "Error", msg |-> <<"Server is busy", "Please try again">>]
NetworkErrorWrap ==
    [name |-> "Error", msg |-> <<"Network Error", "Unable to connect to the server">>]

IsRoutingFaultInverted(r) == r.status = 404 /\ r.json

\* response.status === 404 && !contentType.includes('application/json')
IsRoutingFault(r) == r.status = 404 /\ ~r.json

\* response.status === 429 || response.status === 503
IsOverload(r) == r.status \in {429, 503}

\* retryAfterHeader ? parseInt(retryAfterHeader, 10) : 5
RetryAfterSeconds(r) ==
    IF r.retryAfter = <<>> THEN DEFAULT_RETRY_AFTER ELSE r.retryAfter[1]

\* error.name === 'TypeError' && (msg.includes('Failed to fetch') || msg.includes('NetworkError'))
IsNetworkError(e) ==
    e.name = "TypeError" /\ (Includes(e.msg, "Failed to fetch") \/ Includes(e.msg, "NetworkError"))

\* 1000 * Math.pow(2, attempt) + Math.random() * 500
RetryDelay(attempt, jitter) == RETRY_BASE_MS * (2 ^ attempt) + jitter

\* What the call throws after the loop, from lastError.
FinalError(e) ==
    IF Includes(e.msg, "Backend Error") THEN e
    ELSE IF Includes(e.msg, "Failed to fetch") \/ e.name = "TypeError" THEN NetworkErrorWrap
    ELSE e

Returned(cl, r) == [cl EXCEPT !.pc = "returned", !.result = r]
Threw(cl, e) == [cl EXCEPT !.pc = "threw", !.result = FinalError(e)]

\* continue: the next iteration first sleeps RetryDelay(attempt).
NextAttempt(cl, jitter) ==
    [cl EXCEPT !.pc = "sleeping", !.attempt = cl.attempt + 1,
               !.wakeAt = now + RetryDelay(cl.attempt + 1, jitter)]

CatchBlockRetryAll(cl, e, jitter) ==
    IF Includes(e.msg, "Backend Error") THEN Threw(cl, e)
    ELSE IF cl.attempt < cl.maxRetries THEN NextAttempt(cl, jitter)
    ELSE Threw(cl, e)

\* The catch block of one iteration.
CatchBlock(cl, e, jitter) ==
    IF Includes(e.msg, "Backend Error") THEN Threw(cl, e)
    ELSE IF cl.attempt < cl.maxRetries /\ IsNetworkError(e) THEN NextAttempt(cl, jitter)
    ELSE Threw(cl, e)

\* Does this settlement make the iteration call limiter.setGlobalBackoff?
InvokesBackoff(p) ==
    p.state = "resolved" /\ ~IsRoutingFault(p.v) /\ IsOverload(p.v)

\* One iteration of the loop from the point the limiter's promise settles with p.
AfterAttempt(cl, p, jitter) ==
    IF p.state = "rejected" THEN CatchBlock(cl, p.v, jitter)
    ELSE IF IsRoutingFault(p.v) THEN CatchBlock(cl, BackendError, jitter)
    ELSE IF IsOverload(p.v)
         THEN IF cl.attempt < cl.maxRetries THEN NextAttempt(cl, jitter)
              ELSE CatchBlock(cl, ServerBusyError, jitter)
    ELSE Returned(cl, p.v)

\* limiter.schedule(() => fetch(url, options)) by call c.
ScheduleFetch(c, cl) ==
    /\ nextTask \in Tasks
    /\ Commit(ProcessQueue([Limiter EXCEPT !.queue = Append(queue, nextTask)]),
              [taskState EXCEPT ![nextTask] = "queued"])
    /\ nextTask' = nextTask + 1
    /\ calls' = [c2 \in 1..Max(c, Len(calls)) |->
                    IF c2 = c THEN [cl EXCEPT !.pc = "waiting", !.tasks = Append(cl.tasks, nextTask)]
                    ELSE calls[c2]]

\* fetchWithRetry(url, options, maxRetries) is called: attempt 0 goes to the limiter.
FetchStart(mr) ==
    /\ Len(calls) < NumCalls
    /\ ScheduleFetch(Len(calls) + 1,
                     [pc |-> "new", attempt |-> 0, maxRetries |-> mr, wakeAt |-> 0,
                      tasks |-> <<>>, result |-> Response(0, FALSE, <<>>)])
    /\ UNCHANGED <<globalRetryAfter, maxConcurrent, windowMs, maxPerWindow, now,
                   promise, outcome, doneLog, promisedUntil, backoffBudget, tix, appVars>>

\* The retry sleep of call c is over: the attempt goes to the limiter.
RetryWake(c) ==
    /\ calls[c].pc = "sleeping"
    /\ calls[c].wakeAt <= now
    /\ ScheduleFetch(c, calls[c])
    /\ UNCHANGED <<globalRetryAfter, maxConcurrent, windowMs, maxPerWindow, now,
                   promise, outcome, doneLog, promisedUntil, backoffBudget, tix, appVars>>

\* The fetch of call c settles with o: the limiter settles its promise, releases the
\* slot and re-evaluates the queue; then the call's loop resumes.
FetchSettle(c, o, jitter) ==
    /\ calls[c].pc = "waiting"
    /\ LET k == calls[c].tasks[Len(calls[c].tasks)]
           p == PromiseSettlement(o)
       IN  /\ taskState[k] = "running"
           /\ outcome' = [outcome EXCEPT ![k] = o]
           /\ promise' = [promise EXCEPT ![k] = p]
           /\ doneLog' = Append(doneLog, [task |-> k, at |-> now])
           /\ Commit(ReleaseSlot(Limiter), [taskState EXCEPT ![k] = "settled"])
           /\ IF InvokesBackoff(p)
              THEN /\ globalRetryAfter' = BackoffDeadline(RetryAfterSeconds(p.v))
                   /\ promisedUntil' = Max(promisedUntil, now + RetryAfterSeconds(p.v) * 1000)
              ELSE UNCHANGED <<globalRetryAfter, promisedUntil>>
           /\ calls' = [calls EXCEPT ![c] = AfterAttempt(calls[c], p, jitter)]
    /\ UNCHANGED <<maxConcurrent, windowMs, maxPerWindow, now, nextTask, backoffBudget, tix, appVars>>

\* The module-level limiter as constructed: 5 concurrent, 10 per 1000 ms.
InitFetch ==
    /\ Constructed(FetchTasks)
    /\ maxConcurrent = DEFAULT_MAX_CONCURRENT
    /\ maxPerWindow = DEFAULT_MAX_PER_WINDOW
    /\ backoffBudget = 0

NextFetch ==
    \/ \E mr \in RetryBudgets : FetchStart(mr)
    \/ \E c \in DOMAIN calls, o \in ServerOutcomes, j \in JitterMs : FetchSettle(c, o, j)
    \/ \E c \in DOMAIN calls : RetryWake(c)
    \/ \E d \in DOMAIN timers : TimerFire(d)
    \/ Leap

SpecFetch == InitFetch /\ [][NextFetch]_vars

\* ------------------------------------------------- getTicketsUpdatedInPeriod
\* Texts are sequences of phrases and single digits, so that includes('403') is a
\* search for the digits 4, 0, 3 in a row.
DigitChar == <<"0", "1", "2", "3", "4", "5", "6", "7", "8", "9">>

RECURSIVE Digits(_)
\* `${n}`
Digits(n) ==
    IF n < 10 THEN <<DigitChar[n + 1]>>
    ELSE Digits(n \div 10) \o <<DigitChar[(n % 10) + 1]>>

\* text.includes(pattern)
IncludesText(text, pattern) ==
    \E i \in 1..(Len(text) - Len(pattern) + 1) :
        SubSeq(text, i, i + Len(pattern) - 1) = pattern

\* `/v2/tickets?${new URLSearchParams(listParams)}` for a window starting in `year`.
ListEndpoint(year) ==
    <<"/v2/tickets?updated_since=">> \o Digits(year)
        \o <<"-MM-DDThh%3Amm%3AssZ&include=description%2Cstats%2Crequester&order_by=updated_at&order_type=asc">>

\* parseApiError(response): the description of a JSON body, or the HTML notice.
ParseApiError(status, body) ==
    IF body = "html"
    THEN <<"Server Error (">> \o Digits(status)
            \o <<"): The server returned an HTML page/text instead of JSON.">>
    ELSE <<"Validation failed">>

\* handleApiError(response, context): the Error it throws (an Error has no status).
HandleApiError(status, body, context) ==
    LET errorMsg == ParseApiError(status, body) IN
    [status |-> <<>>,
     msg |-> IF status = 401
             THEN <<"Authentication Failed: Ensure your API Key is correct. (">> \o context \o <<")">>
             ELSE IF status = 403
             THEN <<"Access Denied: You do not have permission to access ">> \o context \o <<".">>
             ELSE IF status = 429
             THEN <<"Rate Limit Exceeded: Freshdesk is busy. Please try again in a minute.">>
             ELSE IF status = 404
             THEN <<"Not Found: The requested ">> \o context \o <<" could not be found.">>
             ELSE IF status >= 500
             THEN <<"Freshdesk System Error (">> \o Digits(status)
                      \o <<"): Please try again later. (">> \o errorMsg \o <<")">>
             ELSE <<"API Error (">> \o Digits(status) \o <<"): ">> \o errorMsg]

\* An error fetchWithRetry threw, as executeRequest rethrows it.
Rethrown(e) == [status |-> <<>>, msg |-> e.msg]

\* (e.message && (e.message.includes('403') || e.message.includes('400'))) || e.status === 403
IsFallbackError(e) ==
    \/ IncludesText(e.msg, Digits(403))
    \/ IncludesText(e.msg, Digits(400))
    \/ e.status = <<403>>

\* What page 1 of an endpoint can come back with through executeRequest: a response
\* (status, kind of body, items of a short page) or an error thrown on the way.
\* 429, 503 and non-JSON 404 never come back as responses: fetchWithRetry retries or throws.
Ticket(id, updatedAt) == [id |-> id, updated_at |-> updatedAt]

PageItems == {<<>>, <<Ticket(1, 5)>>, <<Ticket(1, 5), Ticket(2, 9)>>}

PageOutcomes ==
    {[kind |-> "response", status |-> 200, body |-> "json", items |-> it] : it \in PageItems}
    \cup {[kind |-> "response", status |-> st, body |-> b, items |-> <<>>] :
             st \in {400, 401, 403, 500}, b \in {"json", "html"}}
    \cup {[kind |-> "response", status |-> 404, body |-> "json", items |-> <<>>]}
    \cup {[kind |-> "thrown", error |-> Rethrown(e)] :
             e \in {BackendError, NetworkErrorWrap, ServerBusyError}}

RECURSIVE InPeriod(_, _, _)
\* tickets.filter(t => new Date(t.updated_at) <= toDate && new Date(t.updated_at) >= fromDate)
InPeriod(tickets, from, to) ==
    IF tickets = <<>> THEN <<>>
    ELSE IF Head(tickets).updated_at <= to /\ Head(tickets).updated_at >= from
         THEN <<Head(tickets)>> \o InPeriod(Tail(tickets), from, to)
         ELSE InPeriod(Tail(tickets), from, to)

\* The error page 1 raises in fetchPaginatedFreshdeskAPI, <<>> when it is a 2xx response.
PageError(r, context) ==
    IF r.kind = "thrown" THEN <<r.error>>
    ELSE IF r.status \in 200..299 THEN <<>>
    ELSE <<HandleApiError(r.status, r.body, context)>>

\* getTicketsUpdatedInPeriod(fromDate, toDate) is called: page 1 of the list endpoint.
GetTicketsCall(year, w) ==
    /\ tix.pc = "idle"
    /\ tix' = [tix EXCEPT !.pc = "primary", !.year = year, !.from = w[1], !.to = w[2],
                          !.requests = <<"list">>]
    /\ UNCHANGED <<limiterVars, now, timers, taskVars, histVars, backoffBudget, calls, appVars>>

\* The catch block: search fallback for a fallback error, otherwise rethrow.
CatchPrimary(t, e) ==
    IF IsFallbackError(e)
    THEN [t EXCEPT !.pc = "fallback", !.requests = Append(t.requests, "search")]
    ELSE [t EXCEPT !.pc = "failed", !.error = <<e>>]

\* Page 1 of the list endpoint comes back.
PrimaryResponds(r) ==
    /\ tix.pc = "primary"
    /\ LET t == [tix EXCEPT !.primary = <<r>>]
           err == PageError(r, ListEndpoint(tix.year))
       IN  tix' = IF err # <<>> THEN CatchPrimary(t, err[1])
                  ELSE [t EXCEPT !.pc = "returned",
                                 !.result = InPeriod(r.items, tix.from, tix.to)]
    /\ UNCHANGED <<limiterVars, now, timers, taskVars, histVars, backoffBudget, calls, appVars>>

\* Page 1 of the search endpoint comes back: its result, or its error, is the operation's.
FallbackResponds(r) ==
    /\ tix.pc = "fallback"
    /\ LET t == [tix EXCEPT !.fallback = <<r>>]
           err == PageError(r, <<"/v2/search/tickets?query=">>)
       IN  tix' = IF err # <<>> THEN [t EXCEPT !.pc = "failed", !.error = err]
                  ELSE [t EXCEPT !.pc = "returned", !.result = r.items]
    /\ UNCHANGED <<limiterVars, now, timers, taskVars, histVars, backoffBudget, calls, appVars>>

InitTickets ==
    /\ Constructed(NumTasks)
    /\ maxConcurrent = DEFAULT_MAX_CONCURRENT
    /\ maxPerWindow = DEFAULT_MAX_PER_WINDOW
    /\ backoffBudget = 0

NextTickets ==
    \/ \E y \in FromYears, w \in Windows : GetTicketsCall(y, w)
    \/ \E r \in PageOutcomes : PrimaryResponds(r)
    \/ \E r \in PageOutcomes : FallbackResponds(r)

SpecTickets == InitTickets /\ [][NextTickets]_vars

\* ------------------------------------------------ fetchPaginatedFreshdeskAPI
LIST_PAGE_SIZE == 100
SEARCH_PAGE_SIZE == 30
SEARCH_MAX_PAGES == 10
DEFAULT_MAX_PAGES == 300

\* The page caps a caller passes, the pages a list endpoint serves, the size of its
\* last page, the totals a search endpoint reports, the page requests that may fail.
PageCaps == {2, DEFAULT_MAX_PAGES}
MaxServerPages == 3
LastPageSizes == {0, 1, 99}
SearchTotals == {0, 1, 30, 31, 73, 299, 300, 301}
MaxPageFailures == 2

Min(a, b) == IF a <= b THEN a ELSE b

\* Math.ceil(a / b) for a >= 0, b > 0.
Ceil(a, b) == (a + b - 1) \div b

\* Items are numbered in the server's order: <<a, a+1, ..., b>>.
Range(a, b) == [i \in 1..(b - a + 1) |-> a + i - 1]

\* Page p of a list endpoint serving K pages, the last one holding `last` items.
ListPageBody(K, last, p) ==
    IF p < K THEN Range((p - 1) * LIST_PAGE_SIZE + 1, p * LIST_PAGE_SIZE)
    ELSE IF p = K THEN Range((K - 1) * LIST_PAGE_SIZE + 1, (K - 1) * LIST_PAGE_SIZE + last)
    ELSE <<>>

\* `results` of page p of a search endpoint holding `total` items.
SearchPageBody(total, p) ==
    Range((p - 1) * SEARCH_PAGE_SIZE + 1, Min(p * SEARCH_PAGE_SIZE, total))

\* How a page request ends:
\*   "ok"       a 2xx response with a readable body
\*   "status"   a non-OK response executeRequest returns (401, 403, 400, 500, JSON 404)
\*   "busy"     a 429/503 response on the last attempt: fetchWithRetry throws
\*   "html404"  a 404 response that is not JSON: fetchWithRetry throws
\*   "thrown"   no response: network failure or abort
\*   "badjson"  a 2xx response whose body json() rejects
PageKinds == {"ok", "status", "busy", "html404", "thrown", "badjson"}

\* The server answered with a non-OK status.
NonOkResponses == {"status", "busy", "html404"}

NewPager(search, maxPages, K, last, total) ==
    [pc |-> "page1", search |-> search, maxPages |-> maxPages, K |-> K, last |-> last,
     total |-> total, page |-> 1, allResults |-> <<>>, first |-> "pending",
     settled |-> <<>>, requested |-> <<1>>, failures |-> 0]

ListPageDoneOnFull(data) == Len(data) <= LIST_PAGE_SIZE

\* data.length < pageSize: the page just read is the last one.
ListPageDone(data) == Len(data) < LIST_PAGE_SIZE

SearchMaxPagesFloor(total) == Min(total \div SEARCH_PAGE_SIZE, SEARCH_MAX_PAGES)

\* Math.min(Math.ceil(total / pageSize), 10)
SearchMaxPages(total) == Min(Ceil(total, SEARCH_PAGE_SIZE), SEARCH_MAX_PAGES)

PageContributionDropped(kind, body) == <<>>

\* What the .then / .catch chain of one later search page resolves to.
PageContribution(kind, body) == IF kind = "ok" THEN body ELSE <<>>

RECURSIVE JoinPages(_, _, _, _)
\* pagesResults.forEach(results => allResults = [...allResults, ...results]), pages p..n.
JoinPages(all, p, n, pg) ==
    IF p > n THEN all
    ELSE JoinPages(all \o PageContribution(pg.settled[p], SearchPageBody(pg.total, p)),
                   p + 1, n, pg)

OnListPageNotOkRaise(pg) == [pg EXCEPT !.pc = "threw"]

\* if (!res.ok) break; ... return allResults
OnListPageNotOk(pg) == [pg EXCEPT !.pc = "returned"]

\* The list loop asks for page p, or returns when p is past the cap.
RequestListPage(pg, p) ==
    IF p <= pg.maxPages
    THEN [pg EXCEPT !.pc = "list", !.page = p, !.requested = Append(pg.requested, p)]
    ELSE [pg EXCEPT !.pc = "returned"]

\* Page 1 read in list mode.
ListFirstPage(pg, data) ==
    LET g == [pg EXCEPT !.allResults = data]
    IN  IF ListPageDone(data) THEN [g EXCEPT !.pc = "returned"] ELSE RequestListPage(g, 2)

\* Page 1 read in search mode: the remaining pages are requested at once.
SearchFirstPage(pg, results) ==
    LET n == SearchMaxPages(pg.total)
        g == [pg EXCEPT !.allResults = results]
    IN  IF pg.total > Len(results) /\ n >= 2
        THEN [g EXCEPT !.pc = "search", !.settled = [p \in 2..n |-> "pending"],
                       !.requested = Range(1, n)]
        ELSE [g EXCEPT !.pc = "returned"]

\* fetchPaginatedFreshdeskAPI(listEndpoint, signal, maxPages): page 1 is requested.
FetchPaginatedList(maxPages, K, last) ==
    /\ pager.pc = "idle"
    /\ pager' = NewPager(FALSE, maxPages, K, last, 0)
    /\ UNCHANGED <<acquisitionVars, server, report, store, active, agg>>

\* fetchPaginatedFreshdeskAPI(searchEndpoint, signal): page 1 is requested.
FetchPaginatedSearch(total) ==
    /\ pager.pc = "idle"
    /\ pager' = NewPager(TRUE, DEFAULT_MAX_PAGES, 0, 0, total)
    /\ UNCHANGED <<acquisitionVars, server, report, store, active, agg>>

\* Page 1 settles: any failure is thrown to the caller.
FirstPageResponds(kind) ==
    /\ pager.pc = "page1"
    /\ LET g == [pager EXCEPT !.first = kind]
       IN  pager' = IF kind # "ok" THEN [g EXCEPT !.pc = "threw"]
                    ELSE IF pager.search THEN SearchFirstPage(g, SearchPageBody(pager.total, 1))
                    ELSE ListFirstPage(g, ListPageBody(pager.K, pager.last, 1))
    /\ UNCHANGED <<acquisitionVars, server, report, store, active, agg>>

\* A later page of the list loop settles.
ListPageResponds(kind) ==
    /\ pager.pc = "list"
    /\ kind # "ok" => pager.failures < MaxPageFailures
    /\ LET pageData == ListPageBody(pager.K, pager.last, pager.page)
           s == [pager EXCEPT !.settled = pager.settled @@ (pager.page :> kind)]
           g == [s EXCEPT !.allResults = pager.allResults \o pageData]
       IN  pager' =
             IF kind = "status"
             THEN OnListPageNotOk([s EXCEPT !.failures = pager.failures + 1])
             ELSE IF kind # "ok"
             THEN [s EXCEPT !.pc = "threw", !.failures = pager.failures + 1]
             ELSE IF Len(pageData) > 0
             THEN IF ListPageDone(pageData) THEN [g EXCEPT !.pc = "returned"]
                  ELSE RequestListPage(g, pager.page + 1)
             ELSE [s EXCEPT !.pc = "returned"]
    /\ UNCHANGED <<acquisitionVars, server, report, store, active, agg>>

\* A later search page settles; when it is the last one outstanding, Promise.all
\* resolves and the pages are joined in page order.
SearchPageResponds(p, kind) ==
    /\ pager.pc = "search"
    /\ p \in DOMAIN pager.settled
    /\ pager.settled[p] = "pending"
    /\ kind # "ok" => pager.failures < MaxPageFailures
    /\ LET g == [pager EXCEPT !.settled[p] = kind,
                              !.failures = IF kind = "ok" THEN @ ELSE @ + 1]
           n == Len(pager.requested)
       IN  pager' = IF \A q \in DOMAIN g.settled : g.settled[q] # "pending"
                    THEN [g EXCEPT !.pc = "returned",
                                   !.allResults = JoinPages(g.allResults, 2, n, g)]
                    ELSE g
    /\ UNCHANGED <<acquisitionVars, server, report, store, active, agg>>

InitPaginate ==
    /\ Constructed(NumTasks)
    /\ maxConcurrent = DEFAULT_MAX_CONCURRENT
    /\ maxPerWindow = DEFAULT_MAX_PER_WINDOW
    /\ backoffBudget = 0

NextPaginate ==
    \/ \E mp \in PageCaps, K \in 1..MaxServerPages, last \in LastPageSizes :
          FetchPaginatedList(mp, K, last)
    \/ \E t \in SearchTotals : FetchPaginatedSearch(t)
    \/ \E kind \in PageKinds : FirstPageResponds(kind)
    \/ \E kind \in PageKinds : ListPageResponds(kind)
    \/ \E p \in 2..SEARCH_MAX_PAGES, kind \in PageKinds : SearchPageResponds(p, kind)

SpecPaginate == InitPaginate /\ [][NextPaginate]_vars

\* ------------------------------------------------ cacheService.ts (localStorage)
\* store.items maps the ticket ids that have a fd_conv_ key to the stored
\* {timestamp, data}; timestamps and updated_at are instants in milliseconds.
CacheTickets == {1, 2}
UpdatedAts == {0, 1000, 2000}
Threads == {<<>>, <<"c1">>}
QuotaOutcomes == {"stored", "clearedThenStored", "clearedNotStored"}

\* localStorage.getItem(key): <<>> for null.
GetItem(items, t) == IF t \in DOMAIN items THEN <<items[t]>> ELSE <<>>

\* localStorage.setItem(key, value)
SetItem(items, t, v) == [x \in DOMAIN items \cup {t} |-> IF x = t THEN v ELSE items[x]]

\* localStorage.removeItem(key)
RemoveItem(items, t) == [x \in DOMAIN items \ {t} |-> items[x]]

IsStaleInverted(entry, updatedAt) == updatedAt < entry.timestamp

\* new Date(ticketUpdatedAt) > new Date(timestamp)
IsStale(entry, updatedAt) == updatedAt > entry.timestamp

Miss == [hit |-> FALSE, data |-> <<>>]
Hit(data) == [hit |-> TRUE, data |-> data]

\* What getCachedConversations(ticketId, ticketUpdatedAt) returns.
CachedConversations(items, t, updatedAt) ==
    LET cached == GetItem(items, t)
    IN  IF cached = <<>> THEN Miss
        ELSE IF IsStale(cached[1], updatedAt) THEN Miss
        ELSE Hit(cached[1].data)

\* What getCachedConversations leaves in localStorage.
AfterLookup(items, t, updatedAt) ==
    LET cached == GetItem(items, t)
    IN  IF cached # <<>> /\ IsStale(cached[1], updatedAt) THEN RemoveItem(items, t)
        ELSE items

\* What cacheConversations(ticketId, ticketUpdatedAt, conversations) leaves in
\* localStorage: the entry stamped with the current time; on a quota error the
\* whole storage is cleared and the write retried once.
AfterCaching(items, t, conversations, quota) ==
    LET entry == [timestamp |-> now, data |-> conversations]
    IN  IF quota = "stored" THEN SetItem(items, t, entry)
        ELSE IF quota = "clearedThenStored" THEN SetItem(<<>>, t, entry)
        ELSE <<>>

GetCachedConversations(t, updatedAt) ==
    /\ store' = [items |-> AfterLookup(store.items, t, updatedAt),
                 last |-> [ticket |-> t, updatedAt |-> updatedAt,
                           cached |-> GetItem(store.items, t),
                           result |-> CachedConversations(store.items, t, updatedAt)],
                 flip |-> 1 - store.flip]
    /\ UNCHANGED <<acquisitionVars, server, pager, report, active, agg>>

CacheConversations(t, conversations, quota) ==
    /\ store' = [store EXCEPT !.items = AfterCaching(store.items, t, conversations, quota)]
    /\ UNCHANGED <<acquisitionVars, server, pager, report, active, agg>>

InitCache ==
    /\ Constructed(NumTasks)
    /\ maxConcurrent = DEFAULT_MAX_CONCURRENT
    /\ maxPerWindow = DEFAULT_MAX_PER_WINDOW
    /\ backoffBudget = 0

NextCache ==
    \/ \E t \in CacheTickets, u \in UpdatedAts : GetCachedConversations(t, u)
    \/ \E t \in CacheTickets, c \in Threads, q \in QuotaOutcomes : CacheConversations(t, c, q)
    \/ \E d \in TickSteps : Tick(d)

SpecCache == InitCache /\ [][NextCache]_vars

\* ------------------------------------------------ getActiveTickets
MaxGroups == 2
ActiveTicketIds == {1, 2}
MaxGroupResult == 2

\* A ticket as a per-group query returns it; `via` tells the copies of a ticket
\* that matched more than one query apart.
ActiveTicket(id, via) == [id |-> id, via |-> via]

\* What one search query can resolve to: up to MaxGroupResult tickets, in any order,
\* repeated or not.
QueryResults(via) ==
    UNION {[1..n -> {ActiveTicket(id, via) : id \in ActiveTicketIds}] : n \in 0..MaxGroupResult}

RECURSIVE FlatMap(_, _)
\* results.flatMap(r => r.tickets), from query i on.
FlatMap(results, i) ==
    IF i > Len(results) THEN <<>> ELSE results[i].tickets \o FlatMap(results, i + 1)

RECURSIVE MapEntries(_, _, _)
\* new Map(allTickets.map(t => [t.id, t])): keys in first-insertion order, each key
\* holding the last ticket set for it.
MapEntries(ts, i, keys) ==
    IF i > Len(ts) THEN keys
    ELSE MapEntries(ts, i + 1,
                    IF \E j \in DOMAIN keys : keys[j] = ts[i].id THEN keys
                    ELSE Append(keys, ts[i].id))

LastWithId(ts, id) ==
    ts[CHOOSE i \in DOMAIN ts : ts[i].id = id /\ \A j \in DOMAIN ts : ts[j].id = id => j <= i]

UniqueTicketsAll(ts) == ts

\* Array.from(new Map(allTickets.map(t => [t.id, t])).values())
UniqueTickets(ts) ==
    LET keys == MapEntries(ts, 1, <<>>)
    IN  [k \in DOMAIN keys |-> LastWithId(ts, keys[k])]

\* Promise.all(groupPromises) resolved: merge and de-duplicate.
MergeGroups(a) ==
    LET uniqueTickets == UniqueTickets(FlatMap(a.results, 1))
    IN  [a EXCEPT !.pc = "returned", !.tickets = uniqueTickets, !.total = Len(uniqueTickets)]

\* getActiveTickets(statuses, groupIds, signal) with n groups: one query per group,
\* all issued at once; without groups, the count request.
GetActiveTickets(n) ==
    /\ active.pc = "idle"
    /\ active' = IF n > 0
                 THEN [active EXCEPT !.pc = "groups", !.groups = n,
                                     !.results = [i \in 1..n |-> [state |-> "pending", tickets |-> <<>>]]]
                 ELSE [active EXCEPT !.pc = "count"]
    /\ UNCHANGED <<acquisitionVars, server, pager, report, store, agg>>

\* The query of group i settles: its tickets, or { tickets: [], total: 0 } when the
\* paginated fetch threw. The last one to settle resolves Promise.all.
GroupQuerySettles(i, threw, tickets) ==
    /\ active.pc = "groups"
    /\ i \in DOMAIN active.results
    /\ active.results[i].state = "pending"
    /\ LET a == [active EXCEPT
                    !.results[i] = [state |-> IF threw THEN "failed" ELSE "done",
                                    tickets |-> IF threw THEN <<>> ELSE tickets],
                    !.order = Append(active.order, i)]
       IN  active' = IF \A j \in DOMAIN a.results : a.results[j].state # "pending"
                     THEN MergeGroups(a) ELSE a
    /\ UNCHANGED <<acquisitionVars, server, pager, report, store, agg>>

\* Without groups: the count request settles (a failure is logged and ignored), then
\* the full paginated fetch is issued.
CountSettles(ok, total) ==
    /\ active.pc = "count"
    /\ active' = [active EXCEPT !.pc = "all", !.totalCount = IF ok THEN total ELSE 0]
    /\ UNCHANGED <<acquisitionVars, server, pager, report, store, agg>>

\* Without groups: the paginated fetch settles; total is totalCount || tickets.length.
AllSettles(threw, tickets) ==
    /\ active.pc = "all"
    /\ active' = IF threw THEN [active EXCEPT !.pc = "threw"]
                 ELSE [active EXCEPT !.pc = "returned", !.tickets = tickets,
                          !.total = IF active.totalCount # 0 THEN active.totalCount
                                    ELSE Len(tickets)]
    /\ UNCHANGED <<acquisitionVars, server, pager, report, store, agg>>

InitActive ==
    /\ Constructed(NumTasks)
    /\ maxConcurrent = DEFAULT_MAX_CONCURRENT
    /\ maxPerWindow = DEFAULT_MAX_PER_WINDOW
    /\ backoffBudget = 0

NextActive ==
    \/ \E n \in 0..MaxGroups : GetActiveTickets(n)
    \/ \E i \in 1..MaxGroups, threw \in BOOLEAN :
          \E ts \in QueryResults(i) : GroupQuerySettles(i, threw, ts)
    \/ \E ok \in BOOLEAN, total \in 0..MaxGroupResult : CountSettles(ok, total)
    \/ \E threw \in BOOLEAN : \E ts \in QueryResults(0) : AllSettles(threw, ts)

SpecActive == InitActive /\ [][NextActive]_vars

\* ------------------------------------------------ calculateAllAgentActivity
\* Instants are hours on the UTC time line; a body_text is one of four kinds:
\*   "long"   50 characters or more, no keyword
\*   "short"  under 50 characters, no keyword
\*   "spam"   'marked as spam' (under 50 characters)
\*   "system" under 50 characters, contains 'system'
SA_OFFSET_HOURS == 2
HOURS_PER_DAY == 24
STATUS_RESOLVED == 4
STATUS_CLOSED == 5

\* agentMap, in insertion order; user 0 is a requester.
AgentIds == <<1, 2>>
AgentSet == {AgentIds[i] : i \in DOMAIN AgentIds}

\* The report window and the runtime's local UTC offsets.
Window == [start |-> 22, end |-> 69]
TzOffsets == {-3, 0, 2}

Conversation(user, at, body, private) ==
    [user_id |-> user, created_at |-> at, body_text |-> body, private |-> private]

\* The conversations tickets are built from.
ConvCatalog ==
    {Conversation(1, 22, "long", FALSE),
     Conversation(1, 46, "spam", TRUE),
     Conversation(1, 46, "system", FALSE),
     Conversation(1, 70, "short", FALSE),
     Conversation(2, 22, "short", TRUE),
     Conversation(0, 46, "long", FALSE)}

MaxThread == 2
MaxTickets == 2
ClosedAts == {46, 70}

\* The conversations of the tickets after the first.
OtherConvs ==
    {Conversation(1, 22, "long", FALSE),
     Conversation(1, 46, "spam", TRUE),
     Conversation(2, 22, "short", TRUE)}

ThreadsUpTo(catalog, n) == UNION {[1..k -> catalog] : k \in 0..n}

\* Status and closure instant: an open ticket (status 2) carries a later update time.
Closures ==
    {<<2, 70>>} \cup ({STATUS_RESOLVED, STATUS_CLOSED} \X ClosedAts)

AggTicket(id, status, responder, closedAt, group, convs) ==
    [id |-> id, status |-> status, responder_id |-> responder, closed_at |-> closedAt,
     group_id |-> group, conversations |-> convs]

\* The first ticket of the input, and the ones after it (the same id again, or another).
FirstTickets ==
    {AggTicket(100, sc[1], r, sc[2], 1, th) :
        sc \in Closures, r \in AgentSet, th \in ThreadsUpTo(ConvCatalog, MaxThread)}
OtherTickets ==
    {AggTicket(id, sc[1], r, sc[2], g, th) :
        id \in {100, 200}, sc \in {x \in Closures : x[1] # STATUS_RESOLVED}, r \in AgentSet,
        g \in {1, 2}, th \in ThreadsUpTo(OtherConvs, MaxThread - 1)}
\* The input lists of up to n tickets.
TicketLists(n) ==
    UNION {{<<f>> \o rest : f \in FirstTickets, rest \in [1..k -> OtherTickets]}
              : k \in 0..(n - 1)}

\* toSATime then formatLocalDate: the day, read with the runtime's local getters, of
\* the instant shifted by two hours.
DateStr(at, tz) == (at + SA_OFFSET_HOURS + tz) \div HOURS_PER_DAY

IsSystem(c) == c.body_text = "system"
MarkedAsSpam(c) == c.body_text = "spam"
IsShort(c) == c.body_text # "long"
InRange(at, start, end) == at >= start /\ at <= end

NewAgentData ==
    [ticketIds |-> {}, totalMin |-> 0, totalMax |-> 0, totalResponses |-> 0,
     totalActions |-> 0, totalClosed |-> 0, dailyStats |-> <<>>, groupStats |-> <<>>]

HasKey(entries, k) == \E i \in DOMAIN entries : entries[i].key = k
KeyIndex(entries, k) == CHOOSE i \in DOMAIN entries : entries[i].key = k

\* if (!dailyStats.has(dateStr)) dailyStats.set(dateStr, {0, 0, 0, 0, 0})
WithDay(ds, d) ==
    IF HasKey(ds, d) THEN ds
    ELSE Append(ds, [key |-> d, totalResponses |-> 0, totalActions |-> 0,
                     totalClosed |-> 0, totalMin |-> 0, totalMax |-> 0])

\* if (!groupStats.has(gid)) groupStats.set(gid, { worked: 0, closed: 0 })
WithGroup(gs, g) ==
    IF HasKey(gs, g) THEN gs ELSE Append(gs, [key |-> g, worked |-> 0, closed |-> 0])

\* The conversation counts as activity of an agent of the map.
Qualifies(c, start, end) ==
    /\ InRange(c.created_at, start, end)
    /\ c.user_id \in AgentSet
    /\ ~IsSystem(c)

\* A public reply costed at the rate of a private note.
MinAddNoteRate(c) == IF MarkedAsSpam(c) THEN 1 ELSE 2

MinAdd(c) == IF c.private THEN (IF MarkedAsSpam(c) THEN 1 ELSE 2)
             ELSE (IF IsShort(c) THEN 3 ELSE 5)
MaxAdd(c) == IF c.private THEN (IF MarkedAsSpam(c) THEN 2 ELSE 3)
             ELSE (IF IsShort(c) THEN 4 ELSE 7)

\* Pass 1, one conversation: st holds the agentActivity map and agentsWorked.
Pass1Conversation(st, ticket, c, a) ==
    IF ~Qualifies(c, a.start, a.end) THEN st
    ELSE LET aid == c.user_id
             ad == st.activity[aid]
             ds == WithDay(ad.dailyStats, DateStr(c.created_at, a.tz))
             di == KeyIndex(ds, DateStr(c.created_at, a.tz))
             ad2 == [ad EXCEPT
                       !.ticketIds = @ \cup {ticket.id},
                       !.totalActions = IF c.private THEN @ + 1 ELSE @,
                       !.totalResponses = IF c.private THEN @ ELSE @ + 1,
                       !.dailyStats =
                           [ds EXCEPT ![di].totalActions = IF c.private THEN @ + 1 ELSE @,
                                      ![di].totalResponses = IF c.private THEN @ ELSE @ + 1],
                       !.totalMin = @ + MinAdd(c),
                       !.totalMax = @ + MaxAdd(c)]
         IN  [activity |-> [st.activity EXCEPT ![aid] = ad2],
              agentsWorked |-> IF \E i \in DOMAIN st.agentsWorked : st.agentsWorked[i] = aid
                               THEN st.agentsWorked ELSE Append(st.agentsWorked, aid)]

RECURSIVE Pass1Conversations(_, _, _, _)
\* ticket.conversations.forEach(...), from conversation i on.
Pass1Conversations(st, ticket, i, a) ==
    IF i > Len(ticket.conversations) THEN st
    ELSE Pass1Conversations(Pass1Conversation(st, ticket, ticket.conversations[i], a),
                            ticket, i + 1, a)

RECURSIVE MarkWorked(_, _, _, _)
\* agentsWorked.forEach(aid => groupStats.get(ticket.group_id).worked++)
MarkWorked(activity, worked, i, g) ==
    IF i > Len(worked) THEN activity
    ELSE LET aid == worked[i]
             gs == WithGroup(activity[aid].groupStats, g)
             gi == KeyIndex(gs, g)
         IN  MarkWorked([activity EXCEPT ![aid].groupStats = [gs EXCEPT ![gi].worked = @ + 1]],
                        worked, i + 1, g)

\* Pass 1 for one ticket.
Pass1(activity, ticket, a) ==
    LET st == Pass1Conversations([activity |-> activity, agentsWorked |-> <<>>], ticket, 1, a)
    IN  MarkWorked(st.activity, st.agentsWorked, 1, ticket.group_id)

\* The ticket is Resolved or Closed with its closure instant inside the window.
ClosedInRange(ticket, start, end) ==
    /\ ticket.status \in {STATUS_RESOLVED, STATUS_CLOSED}
    /\ InRange(ticket.closed_at, start, end)

ClosureCreditedAlways(ad, ticket) == TRUE

\* if (ad.ticketIds.has(ticket.id))
ClosureCredited(ad, ticket) == ticket.id \in ad.ticketIds

\* Pass 2 for one ticket.
Pass2(activity, ticket, a) ==
    LET closerId == ticket.responder_id
    IN  IF ~ClosedInRange(ticket, a.start, a.end) THEN activity
        ELSE IF closerId \notin AgentSet THEN activity
        ELSE IF ~ClosureCredited(activity[closerId], ticket) THEN activity
        ELSE LET ad == activity[closerId]
                 ds == WithDay(ad.dailyStats, DateStr(ticket.closed_at, a.tz))
                 di == KeyIndex(ds, DateStr(ticket.closed_at, a.tz))
                 gs == WithGroup(ad.groupStats, ticket.group_id)
                 gi == KeyIndex(gs, ticket.group_id)
             IN  [activity EXCEPT ![closerId] =
                     [ad EXCEPT !.totalClosed = @ + 1,
                                !.totalMin = @ + 1,
                                !.totalMax = @ + 2,
                                !.dailyStats = [ds EXCEPT ![di].totalClosed = @ + 1,
                                                          ![di].totalMin = @ + 1,
                                                          ![di].totalMax = @ + 2],
                                !.groupStats = [gs EXCEPT ![gi].closed = @ + 1]]]

\* The estimate returned as accumulated.
ConstrainTimeEstimateUncapped(min, max) == [min |-> min, max |-> max]

\* constrainTimeEstimate(min, max): max capped at ceil(1.5 * min), never below min.
ConstrainTimeEstimate(min, max) ==
    LET capped == IF 2 * max > 3 * min THEN (3 * min + 1) \div 2 ELSE max
    IN  [min |-> min, max |-> IF capped < min THEN min ELSE capped]

\* The place of element i in a stable ascending sort on keys.
Rank(keys, i) ==
    1 + Cardinality({j \in DOMAIN keys : keys[j] < keys[i] \/ (keys[j] = keys[i] /\ j < i)})

\* Array.prototype.sort with a comparator ordering by key, ascending (stable).
SortAscending(seq, keys) ==
    [k \in DOMAIN seq |-> seq[CHOOSE i \in DOMAIN seq : Rank(keys, i) = k]]

DailyBreakdown(ds) ==
    LET constrained ==
          [i \in DOMAIN ds |->
              LET c == ConstrainTimeEstimate(ds[i].totalMin, ds[i].totalMax)
              IN  [date |-> ds[i].key, totalResponses |-> ds[i].totalResponses,
                   totalActions |-> ds[i].totalActions, totalClosed |-> ds[i].totalClosed,
                   totalAgentActivity |-> ds[i].totalResponses + ds[i].totalActions,
                   totalMin |-> c.min, totalMax |-> c.max]]
    IN  SortAscending(constrained, [i \in DOMAIN ds |-> ds[i].key])

AgentGroupStats(gs) ==
    SortAscending([i \in DOMAIN gs |-> [group |-> gs[i].key, total |-> gs[i].worked + gs[i].closed,
                                        worked |-> gs[i].worked, closed |-> gs[i].closed]],
                  [i \in DOMAIN gs |-> 0 - gs[i].worked])

TicketCountPerConversation(ad) == ad.totalResponses + ad.totalActions

\* data.ticketIds.size
TicketCount(ad) == Cardinality(ad.ticketIds)

AgentSummary(agentId, ad) ==
    LET c == ConstrainTimeEstimate(ad.totalMin, ad.totalMax)
    IN  [agentId |-> agentId, ticketCount |-> TicketCount(ad),
         totalResponses |-> ad.totalResponses, totalActions |-> ad.totalActions,
         totalClosed |-> ad.totalClosed,
         totalAgentActivity |-> ad.totalResponses + ad.totalActions,
         totalMin |-> c.min, totalMax |-> c.max,
         dailyBreakdown |-> DailyBreakdown(ad.dailyStats),
         groupStats |-> AgentGroupStats(ad.groupStats)]

\* .map(...).filter(ticketCount > 0 || totalClosed > 0).sort(by ticketCount, descending)
Summarise(activity) ==
    LET all == [i \in DOMAIN AgentIds |-> AgentSummary(AgentIds[i], activity[AgentIds[i]])]
        kept == SelectSeq(all, LAMBDA s : s.ticketCount > 0 \/ s.totalClosed > 0)
    IN  SortAscending(kept, [i \in DOMAIN kept |-> 0 - kept[i].ticketCount])

\* calculateAllAgentActivity(tickets, agentMap, startDate, endDate, groupMap) is called.
CalculateAllAgentActivity ==
    /\ agg.pc = "idle"
    /\ \E tickets \in TicketLists(MaxTickets), tz \in TzOffsets :
          agg' = [agg EXCEPT !.pc = "pass1", !.tickets = tickets, !.tz = tz, !.ti = 1,
                             !.start = Window.start, !.end = Window.end,
                             !.activity = [id \in AgentSet |-> NewAgentData]]
    /\ UNCHANGED <<acquisitionVars, server, pager, report, store, active>>

\* One turn of the first tickets.forEach.
Pass1Ticket ==
    /\ agg.pc = "pass1"
    /\ agg' = [agg EXCEPT !.activity = Pass1(agg.activity, agg.tickets[agg.ti], agg),
                          !.ti = IF agg.ti = Len(agg.tickets) THEN 1 ELSE agg.ti + 1,
                          !.pc = IF agg.ti = Len(agg.tickets) THEN "pass2" ELSE "pass1"]
    /\ UNCHANGED <<acquisitionVars, server, pager, report, store, active>>

\* One turn of the second tickets.forEach; after the last one the summary is built.
Pass2Ticket ==
    /\ agg.pc = "pass2"
    /\ LET activity == Pass2(agg.activity, agg.tickets[agg.ti], agg)
       IN  agg' = IF agg.ti = Len(agg.tickets)
                  THEN [agg EXCEPT !.activity = activity, !.pc = "done",
                                   !.summary = Summarise(activity)]
                  ELSE [agg EXCEPT !.activity = activity, !.ti = agg.ti + 1]
    /\ UNCHANGED <<acquisitionVars, server, pager, report, store, active>>

InitAggregate ==
    /\ Constructed(NumTasks)
    /\ maxConcurrent = DEFAULT_MAX_CONCURRENT
    /\ maxPerWindow = DEFAULT_MAX_PER_WINDOW
    /\ backoffBudget = 0

NextAggregate ==
    \/ CalculateAllAgentActivity
    \/ Pass1Ticket
    \/ Pass2Ticket

SpecAggregate == InitAggregate /\ [][NextAggregate]_vars

\* ------------------------------------------------ handleGenerateReport (App.tsx)
BATCH == 50

\* Sizes of the current-period list; the previous-period and 24h-lookback lists (the
\* lookback may hold a ticket of the current period again); the groups loaded at
\* start-up; the tickets whose conversation endpoint may answer with an error.
ListSizes == {0, BATCH, BATCH + 1}
SideLists == {<<<<>>, <<>>>>, <<<<BATCH + 10>>, <<1>>>>}
GroupCounts == {0, 2}
FlakyTickets == {BATCH, BATCH + 1}
ServerThread == <<"c1">>

NotReached == [state |-> "none", data |-> <<>>, source |-> "none"]
Fetching == [state |-> "pending", data |-> <<>>, source |-> "none"]
Augmented(data, source) == [state |-> "done", data |-> data, source |-> source]

BatchEndWholeList(i, n) == n

\* list.slice(i, i + BATCH) ends at position Min(i + BATCH, n).
BatchEnd(i, n) == Min(i + BATCH, n)

\* The positions of list r.li whose conversation fetch is outstanding.
PendingPositions(r) ==
    {k \in DOMAIN r.convs[r.li] : r.convs[r.li][k].state = "pending"}

\* batch.map(async t => ...) up to the first await: a cache hit resolves the ticket
\* at once, a miss issues getConversations(t.id, signal).
IssueBatch(r, items) ==
    LET l == r.li
        last == BatchEnd(r.i, Len(r.lists[l]))
        batch == (r.i + 1)..last
        looked == [k \in batch |-> CachedConversations(items, r.lists[l][k], 0)]
        stale == {r.lists[l][k] : k \in {x \in batch :
                     r.lists[l][x] \in DOMAIN items /\ ~looked[x].hit}}
    IN  [r |-> [r EXCEPT !.convs[l] =
                    [k \in DOMAIN r.convs[l] |->
                        IF k \in batch
                        THEN IF looked[k].hit THEN Augmented(looked[k].data, "cache")
                             ELSE Fetching
                        ELSE r.convs[l][k]]],
         items |-> [x \in DOMAIN items \ stale |-> items[x]]]

RECURSIVE RunAugment(_, _)
\* The three fetchAndAugment calls, from batch offset r.i of list r.li on, up to the
\* next batch that has to wait for a fetch; after the last list, getActiveTickets.
RunAugment(r, items) ==
    IF r.li > Len(r.lists) THEN [r |-> [r EXCEPT !.pc = "active"], items |-> items]
    ELSE IF r.i >= Len(r.lists[r.li])
    THEN RunAugment([r EXCEPT !.li = r.li + 1, !.i = 0], items)
    ELSE LET b == IssueBatch(r, items)
         IN  IF PendingPositions(b.r) # {} THEN [r |-> [b.r EXCEPT !.pc = "augment"],
                                                 items |-> b.items]
             ELSE RunAugment([b.r EXCEPT !.i = r.i + BATCH], b.items)

OnConversationErrorRethrow(r) == [r EXCEPT !.pc = "failed", !.failedAt = "augment"]

\* getConversations catches every error and resolves to []; the augmentor goes on.
OnConversationError(r) == r

\* The catch block of handleGenerateReport: an AbortError is dropped, any other
\* error is shown.
CatchBlockOfReport(r, phase) ==
    [r EXCEPT !.pc = IF r.aborted THEN "cancelled" ELSE "failed", !.failedAt = phase]

\* handleGenerateReport(range): a fresh AbortController, the three listings issued.
HandleGenerateReport(groups) ==
    /\ report.pc = "idle"
    /\ report' = [report EXCEPT !.pc = "listing", !.groups = groups]
    /\ UNCHANGED <<acquisitionVars, server, pager, store, active, agg>>

\* controller.abort(): a new report is started while this one is under way.
Abort ==
    /\ report.pc \in {"listing", "augment", "active"}
    /\ ~report.aborted
    /\ report' = [report EXCEPT !.aborted = TRUE, !.abortedAt = report.pc]
    /\ UNCHANGED <<acquisitionVars, server, pager, store, active, agg>>

\* Promise.all of the three getTicketsUpdatedInPeriod calls rejects.
ListingThrows ==
    /\ report.pc = "listing"
    /\ report' = CatchBlockOfReport(report, "listing")
    /\ UNCHANGED <<acquisitionVars, server, pager, store, active, agg>>

\* Promise.all of the three getTicketsUpdatedInPeriod calls resolves: the first
\* batch of the first non-empty list is issued. The listings can resolve after an
\* abort too: one that fell back to the search endpoint turns the AbortError of its
\* later pages into empty pages.
ListingResolves(n, side) ==
    /\ report.pc = "listing"
    /\ LET lists == <<Range(1, n), side[1], side[2]>>
           r == [report EXCEPT !.lists = lists,
                               !.convs = [l \in DOMAIN lists |->
                                             [k \in DOMAIN lists[l] |-> NotReached]],
                               !.li = 1, !.i = 0]
           run == RunAugment(r, store.items)
       IN  /\ report' = run.r
           /\ store' = [store EXCEPT !.items = run.items]
    /\ UNCHANGED <<acquisitionVars, server, pager, active, agg>>

\* The conversation fetch of the ticket at position k of the current batch settles;
\* what getConversations resolved to is cached. Requests pass the limiter's queue
\* in order: the oldest outstanding one settles, or the last one of the batch
\* overtakes the others; once the signal is aborted they reject in order.
ConversationSettles(k, ok) ==
    /\ report.pc = "augment"
    /\ LET pending == PendingPositions(report)
           t == report.lists[report.li][k]
           data == IF ok THEN ServerThread ELSE <<>>
           r0 == [report EXCEPT !.convs[report.li][k] =
                      Augmented(data, IF ok THEN "network" ELSE "error")]
           r1 == IF ok THEN r0 ELSE OnConversationError(r0)
           items == AfterCaching(store.items, t, data, "stored")
       IN  /\ k \in pending
           /\ \/ \A j \in pending : k <= j
              \/ ~report.aborted /\ k = BatchEnd(report.i, Len(report.lists[report.li]))
           /\ report.aborted => ~ok
           /\ (~ok /\ ~report.aborted) => t \in FlakyTickets
           /\ IF r1.pc = "augment" /\ PendingPositions(r1) = {}
              THEN LET run == RunAugment([r1 EXCEPT !.i = r1.i + BATCH], items)
                   IN  /\ report' = run.r
                       /\ store' = [store EXCEPT !.items = run.items]
              ELSE /\ report' = r1
                   /\ store' = [store EXCEPT !.items = items]
    /\ UNCHANGED <<acquisitionVars, server, pager, active, agg>>

\* getActiveTickets rejects: only without groups, where the paginated fetch is not
\* wrapped.
ActiveThrows ==
    /\ report.pc = "active"
    /\ report.groups = 0
    /\ report' = CatchBlockOfReport(report, "active")
    /\ UNCHANGED <<acquisitionVars, server, pager, store, active, agg>>

\* getActiveTickets resolves (with groups it always does, every per-group failure
\* being turned into an empty result): calculateAllAgentActivity runs and
\* setDashboardData publishes.
ActiveResolves ==
    /\ report.pc = "active"
    /\ report' = [report EXCEPT !.pc = "published", !.engineRan = TRUE, !.dashboard = TRUE]
    /\ UNCHANGED <<acquisitionVars, server, pager, store, active, agg>>

InitReport ==
    /\ Constructed(NumTasks)
    /\ maxConcurrent = DEFAULT_MAX_CONCURRENT
    /\ maxPerWindow = DEFAULT_MAX_PER_WINDOW
    /\ backoffBudget = 0

NextReport ==
    \/ \E g \in GroupCounts : HandleGenerateReport(g)
    \/ Abort
    \/ ListingThrows
    \/ \E n \in ListSizes, side \in SideLists : ListingResolves(n, side)
    \/ \E k \in 1..(BATCH + 1), ok \in BOOLEAN : ConversationSettles(k, ok)
    \/ ActiveThrows
    \/ ActiveResolves

SpecReport == InitReport /\ [][NextReport]_vars

\* ------------------------------------------------ one ticket's augmentation
\* fetchAndAugment for one ticket against a helpdesk where tickets gain
\* conversations: the listing gives the ticket's current updated_at, the cache is
\* looked up, and on a miss the thread is requested, read by the server, and cached
\* when the response arrives. Conversations are numbered 1, 2, ... per ticket.
MaxConversations == 2

\* An agent or the requester writes on the ticket: updated_at advances to now.
TicketGainsConversation(t) ==
    /\ Len(server.thread[t]) < MaxConversations
    /\ server' = [server EXCEPT !.thread[t] = Append(@, Len(@) + 1),
                                !.updatedAt[t] = now]
    /\ UNCHANGED <<acquisitionVars, pager, report, store, active, agg>>

\* let convos = getCachedConversations(t.id, t.updated_at); if (!convos) the
\* conversations are requested.
LookupListedTicket(t) ==
    /\ server.pc[t] = "idle"
    /\ LET updatedAt == server.updatedAt[t]
           result == CachedConversations(store.items, t, updatedAt)
       IN  /\ store' = [items |-> AfterLookup(store.items, t, updatedAt),
                        last |-> [ticket |-> t, updatedAt |-> updatedAt,
                                  cached |-> GetItem(store.items, t),
                                  result |-> result],
                        flip |-> 1 - store.flip]
           /\ server' = [server EXCEPT !.pc[t] = IF result.hit THEN "idle" ELSE "requested"]
    /\ UNCHANGED <<acquisitionVars, pager, report, active, agg>>

\* The helpdesk answers the conversations request with the thread as it is now.
ServerReadsThread(t) ==
    /\ server.pc[t] = "requested"
    /\ server' = [server EXCEPT !.pc[t] = "responded", !.read[t] = server.thread[t]]
    /\ UNCHANGED <<acquisitionVars, pager, report, store, active, agg>>

\* convos = await getConversations(...); cacheConversations(t.id, t.updated_at, convos)
ResponseCached(t) ==
    /\ server.pc[t] = "responded"
    /\ store' = [store EXCEPT !.items = AfterCaching(store.items, t, server.read[t], "stored")]
    /\ server' = [server EXCEPT !.pc[t] = "idle"]
    /\ UNCHANGED <<acquisitionVars, pager, report, active, agg>>

InitRefresh ==
    /\ Constructed(NumTasks)
    /\ maxConcurrent = DEFAULT_MAX_CONCURRENT
    /\ maxPerWindow = DEFAULT_MAX_PER_WINDOW
    /\ backoffBudget = 0

NextRefresh ==
    \/ \E t \in CacheTickets : TicketGainsConversation(t)
    \/ \E t \in CacheTickets : LookupListedTicket(t)
    \/ \E t \in CacheTickets : ServerReadsThread(t)
    \/ \E t \in CacheTickets : ResponseCached(t)
    \/ \E d \in TickSteps : Tick(d)

SpecRefresh == InitRefresh /\ [][NextRefresh]_vars

\* ------------------------------------------------------------------ claims
InFlight == {k \in Tasks : taskState[k] = "running"}

\* Starts whose time lies in the half-open window of length w that ends at (and holds) t.
StartsInWindow(t, w) == {j \in 1..Len(startLog) : startLog[j].at <= t /\ t - startLog[j].at < w}

\* C1: after setGlobalBackoff(s) at time t no task starts before t + s seconds,
\* whatever schedule() calls, completions, timers and further setGlobalBackoff()
\* calls follow.
C1_NoStartBeforeBackoffEnds ==
    \A i \in 1..Len(startLog) : startLog[i].at >= startLog[i].promised

\* C2: the number of tasks started and not yet settled never exceeds maxConcurrent.
C2_InFlightBounded == Cardinality(InFlight) <= maxConcurrent

C2_Witness ==
    /\ maxConcurrent = 2
    /\ Cardinality(InFlight) = 2
    /\ queue # <<>>
    /\ ~BackoffActive
    /\ ~WindowFull(SelectRecent(requestTimestamps, now, windowMs))

\* C3: in any rolling window of length windowMs at most maxPerWindow tasks start.
C3_WindowQuota ==
    \A i \in 1..Len(startLog) :
        Cardinality(StartsInWindow(startLog[i].at, windowMs)) <= maxPerWindow

\* The quota was binding: a task started exactly windowMs after the oldest of
\* maxPerWindow earlier starts.
C3_Witness ==
    \E i \in 1..Len(startLog) :
        /\ Cardinality(StartsInWindow(startLog[i].at - 1, windowMs)) = maxPerWindow
        /\ \E j \in 1..Len(startLog) : startLog[i].at - startLog[j].at = windowMs


\* A waiting task always has something that will look at the queue again.
C6_QueueWatched == queue # <<>> => (InFlight # {} \/ timers # EmptyBag)

\* C6: the limiter never drops a task. Whenever the queue is non-empty a task is in
\* flight or a re-check timer is pending, and every task handed to schedule() is
\* eventually started, given that started tasks settle and setGlobalBackoff is
\* called finitely often.
C6_NeverDropped ==
    /\ []C6_QueueWatched
    /\ \A k \in 1..LiveTasks : (taskState[k] = "queued") ~> (taskState[k] \in {"running", "settled"})

\* Every task was started, one of them by a re-check timer after a backoff had
\* held it back past MaxTime.
C6_Witness ==
    /\ Len(startLog) = LiveTasks
    /\ \E i \in 1..Len(startLog) : startLog[i].promised > 0 /\ startLog[i].at > MaxTime

\* Completions whose time lies in the half-open window of length w ending at t.
DoneInWindow(t, w) == {j \in 1..Len(doneLog) : doneLog[j].at <= t /\ t - doneLog[j].at < w}

\* C4 (as claimed): with N=2, M=3, W=1000 ms and 5 tasks scheduled at once, no more
\* than 3 tasks complete within any 1-second sliding window.
C4_AtMostThreeCompletePerSecond ==
    \A i \in 1..Len(doneLog) : Cardinality(DoneInWindow(doneLog[i].at, 1000)) <= 3

\* C4 (amended): in that scenario at most 2 tasks run concurrently and no more than
\* 3 tasks start within any 1-second sliding window.
C4_AtMostThreeStartPerSecond ==
    /\ Cardinality(InFlight) <= 2
    /\ \A i \in 1..Len(startLog) : Cardinality(StartsInWindow(startLog[i].at, 1000)) <= 3

\* All 5 tasks ran, 4 of them completing within one second.
C4_Witness ==
    /\ Len(doneLog) = 5
    /\ \E i \in 1..Len(doneLog) : Cardinality(DoneInWindow(doneLog[i].at, 1000)) = 4
    /\ \E i \in 1..Len(startLog) : Cardinality(StartsInWindow(startLog[i].at, 1000)) = 3

\* The promise settles exactly as the task did, and settled tasks hold no slot.
C7_SettlementFaithful ==
    /\ \A k \in Tasks : promise[k] = outcome[k]
    /\ activeRequests = Cardinality(InFlight)

\* A step in which a task rejects starts the queue head when nothing else holds it.
C7_RejectionRestartsQueue ==
    \A k \in Tasks :
        (/\ taskState[k] = "running"
         /\ taskState'[k] = "settled"
         /\ promise'[k].state = "rejected"
         /\ queue # <<>>
         /\ now >= globalRetryAfter
         /\ Cardinality(StartsInWindow(now, windowMs)) < maxPerWindow)
        => taskState'[Head(queue)] = "running"

\* C7: a rejecting task rejects the promise schedule() returned with the same error
\* (the limiter adds no rejection of its own), its slot is released, and the queue
\* head is re-evaluated at once: with no backoff and window quota left, the task
\* queued behind it is started in the same step.
C7_RejectionPropagates == []C7_SettlementFaithful /\ [][C7_RejectionRestartsQueue]_vars

\* A task rejected and, the limiter allowing one task at a time, the task queued
\* behind it started at that very instant.
C7_Witness ==
    /\ maxConcurrent = 1
    /\ \E d \in 1..Len(doneLog), i \in 1..Len(startLog) :
          /\ promise[doneLog[d].task] = [state |-> "rejected", v |-> "e1"]
          /\ startLog[i].task > doneLog[d].task
          /\ startLog[i].at = doneLog[d].at

\* ---- fetchWithRetry claims
LastTask(c) == calls[c].tasks[Len(calls[c].tasks)]

GotStatus(o, statuses) == o.state = "resolved" /\ o.v.status \in statuses

GotNetworkFailure(o) ==
    o.state = "rejected" /\ o.v.name = "TypeError" /\ o.v.msg = <<"Failed to fetch">>

GotHtml404(o) == o.state = "resolved" /\ o.v.status = 404 /\ ~o.v.json

\* C5: a 429/503 response makes fetchWithRetry invoke the global backoff (Retry-After
\* seconds, 5 when the header is absent) before its retry is scheduled, and no
\* request, the retry or any other caller's, is started before that deadline.
C5_OverloadPausesQueue ==
    /\ \A d \in 1..Len(doneLog) :
          LET o == outcome[doneLog[d].task] IN
          GotStatus(o, {429, 503}) =>
              promisedUntil >= doneLog[d].at
                               + (IF o.v.retryAfter = <<>> THEN 5 ELSE o.v.retryAfter[1]) * 1000
    /\ \A i \in 1..Len(startLog) : startLog[i].promised <= startLog[i].at

\* C8: one call schedules at most maxRetries + 1 requests, and a further attempt
\* follows only a network-layer failure or a 429/503 response.
C8_BoundedRetries ==
    \A c \in DOMAIN calls :
        /\ Len(calls[c].tasks) <= calls[c].maxRetries + 1
        /\ \A i \in 1..(Len(calls[c].tasks) - 1) :
              LET o == outcome[calls[c].tasks[i]] IN
              GotNetworkFailure(o) \/ GotStatus(o, {429, 503})

\* C8 (as claimed): ... and every response with another status is returned to the
\* caller by the attempt that received it.
C8_OtherStatusReturned ==
    /\ C8_BoundedRetries
    /\ \A c \in DOMAIN calls :
          LET o == outcome[LastTask(c)] IN
          (o.state = "resolved" /\ o.v.status \notin {429, 503})
              => (calls[c].pc = "returned" /\ calls[c].result = o.v)

\* C8 (amended): ... and every response with another status is returned to the caller
\* by the attempt that received it, except a 404 whose content type is not JSON,
\* which makes the call throw instead.
C8_OtherStatusReturnedBut404Html ==
    /\ C8_BoundedRetries
    /\ \A c \in DOMAIN calls :
          LET o == outcome[LastTask(c)] IN
          (o.state = "resolved" /\ o.v.status \notin {429, 503})
              => IF GotHtml404(o) THEN calls[c].pc = "threw"
                 ELSE calls[c].pc = "returned" /\ calls[c].result = o.v

\* A call with maxRetries = 2 used all 3 requests and returned the last response.
C8_Witness ==
    \E c \in DOMAIN calls :
        /\ calls[c].maxRetries = 2
        /\ Len(calls[c].tasks) = 3
        /\ calls[c].pc = "returned"
        /\ calls[c].result.status = 404

\* C9: a 404 response whose content type is not JSON ends the call at once, whatever
\* maxRetries is, with a 'Backend Error' that no network-error or server-busy
\* failure carries.
C9_RoutingFaultFatal ==
    \A c \in DOMAIN calls :
        /\ \A i \in 1..Len(calls[c].tasks) :
              GotHtml404(outcome[calls[c].tasks[i]]) =>
                  /\ i = Len(calls[c].tasks)
                  /\ calls[c].pc = "threw"
                  /\ Includes(calls[c].result.msg, "Backend Error")
                  /\ ~Includes(calls[c].result.msg, "Network Error")
                  /\ ~Includes(calls[c].result.msg, "Server is busy")
        /\ (calls[c].pc = "threw" /\ Includes(calls[c].result.msg, "Backend Error"))
              => GotHtml404(outcome[LastTask(c)])

\* The first attempt of a call with two retries left got the 404, and the call threw.
C9_Witness ==
    \E c \in DOMAIN calls :
        /\ calls[c].maxRetries = 2
        /\ Len(calls[c].tasks) = 1
        /\ GotHtml404(outcome[LastTask(c)])
        /\ calls[c].pc = "threw"

\* ---- getTicketsUpdatedInPeriod claims
\* C10: when page 1 of the list endpoint is rejected with HTTP 403 or HTTP 400, the
\* operation issues the search fallback and ends with the fallback's outcome.
C10_FallbackOn403And400 ==
    (tix.primary # <<>> /\ tix.primary[1].kind = "response"
        /\ tix.primary[1].status \in {403, 400})
    => tix.requests = <<"list", "search">>

\* ---- fetchPaginatedFreshdeskAPI claims
\* Every page request of the call so far was answered with a readable 2xx response.
NoPageFailed ==
    /\ pager.first = "ok"
    /\ pager.failures = 0

\* C12: in list mode, an endpoint serving K pages within the page cap, pages 1..K-1
\* full (100 items) and page K short, yields exactly the 100*(K-1) + lastPageSize
\* items the server holds, in page order, none twice and none missing.
C12_ListPaginationComplete ==
    (pager.pc = "returned" /\ ~pager.search /\ pager.K <= pager.maxPages /\ NoPageFailed)
    => pager.allResults = Range(1, LIST_PAGE_SIZE * (pager.K - 1) + pager.last)

C12_Witness ==
    /\ pager.pc = "returned" /\ ~pager.search /\ NoPageFailed
    /\ pager.K = 3 /\ pager.K <= pager.maxPages /\ pager.last = 99
    /\ Len(pager.allResults) = 299
    /\ pager.requested = <<1, 2, 3>>

\* C13: in search mode the paginator never returns more than the reported total,
\* and with no failed page request it returns exactly the total, item by item, for
\* every total up to 10 pages of 30.
C13_SearchTotalConsistent ==
    (pager.pc = "returned" /\ pager.search)
    => /\ Len(pager.allResults) <= pager.total
       /\ (NoPageFailed /\ pager.total <= SEARCH_PAGE_SIZE * SEARCH_MAX_PAGES)
            => pager.allResults = Range(1, pager.total)

C13_Witness ==
    /\ pager.pc = "returned" /\ pager.search /\ NoPageFailed
    /\ pager.total = 73
    /\ Len(pager.allResults) = 73
    /\ pager.requested = <<1, 2, 3>>

\* The search page that holds item x.
PageOf(x) == ((x - 1) \div SEARCH_PAGE_SIZE) + 1

\* The items of page 1 and of the later pages whose request succeeded.
ServedItems ==
    {x \in 1..pager.total :
        \/ PageOf(x) = 1
        \/ PageOf(x) \in DOMAIN pager.settled /\ pager.settled[PageOf(x)] = "ok"}

\* C14: in search mode a failing request for a page after the first (non-OK status,
\* thrown error, unreadable body) contributes zero items and never fails the fetch:
\* the call throws only when page 1 failed, and what it returns holds every item of
\* page 1 and of each page that succeeded, and nothing else.
C14_SearchPageFailureIsPartial ==
    pager.search =>
        /\ pager.pc = "threw" => pager.first # "ok"
        /\ pager.pc = "returned" =>
              /\ {pager.allResults[i] : i \in DOMAIN pager.allResults} = ServedItems
              /\ Len(pager.allResults) = Cardinality(ServedItems)

C14_Witness ==
    /\ pager.pc = "returned" /\ pager.search /\ pager.total = 73
    /\ pager.settled[2] = "status" /\ pager.settled[3] = "ok"
    /\ pager.allResults = Range(1, 30) \o Range(61, 73)

\* ---- cacheService claims
\* The step is a call of getCachedConversations.
IsLookupStep == store'.flip # store.flip

\* The lookup of this step found an entry stamped at or after the ticket's updated_at.
LookupFoundValid ==
    /\ store'.last.ticket \in DOMAIN store.items
    /\ store.items[store'.last.ticket].timestamp >= store'.last.updatedAt

C17_LookupStep ==
    IsLookupStep =>
        LET t == store'.last.ticket
        IN  /\ store'.last.result.hit <=> LookupFoundValid
            /\ store'.last.result.hit =>
                  /\ store'.last.result.data = store.items[t].data
                  /\ store'.items = store.items
            /\ (t \in DOMAIN store.items /\ ~LookupFoundValid) =>
                  /\ ~store'.last.result.hit
                  /\ t \notin DOMAIN store'.items
                  /\ \A x \in DOMAIN store.items \ {t} :
                        x \in DOMAIN store'.items /\ store'.items[x] = store.items[x]

\* C17: getCachedConversations(ticketId, updatedAt) returns the stored thread if and
\* only if an entry exists for the ticket id and its timestamp is not older than
\* updatedAt; an older entry gives a miss and is removed (and no other entry is).
C17_CacheValidity == [][C17_LookupStep]_vars

\* A lookup has found an older entry and removed it, another has hit.
C17_Witness ==
    /\ store.last.ticket = 1 /\ store.last.updatedAt = 1000 /\ ~store.last.result.hit
    /\ store.last.cached # <<>> /\ store.last.cached[1].timestamp = 500
    /\ 1 \notin DOMAIN store.items
    /\ 2 \in DOMAIN store.items /\ store.items[2].timestamp = 500
    /\ now = 1000

\* ---- getActiveTickets claims
\* C18: getActiveTickets with a non-empty group list returns a list in which no
\* ticket id occurs twice and a total equal to its length, whatever the per-group
\* queries returned and in whatever order they settled.
C18_ActiveTicketsUnique ==
    (active.pc = "returned" /\ active.groups > 0)
    => /\ \A i, j \in DOMAIN active.tickets :
             active.tickets[i].id = active.tickets[j].id => i = j
       /\ active.total = Len(active.tickets)

\* Two queries returned the same ticket, the second one settling first.
C18_Witness ==
    /\ active.pc = "returned" /\ active.groups = 2
    /\ active.order = <<2, 1>>
    /\ active.results[1].tickets = <<ActiveTicket(1, 1), ActiveTicket(2, 1)>>
    /\ active.results[2].tickets = <<ActiveTicket(2, 2), ActiveTicket(1, 2)>>
    /\ active.tickets = <<ActiveTicket(1, 2), ActiveTicket(2, 2)>>
    /\ active.total = 2

\* ---- calculateAllAgentActivity claims
\* The input tickets with this id hold an in-window, non-system conversation of agent a.
TouchedBy(a, id) ==
    \E i \in DOMAIN agg.tickets :
        /\ agg.tickets[i].id = id
        /\ \E k \in DOMAIN agg.tickets[i].conversations :
              LET c == agg.tickets[i].conversations[k]
              IN  /\ c.user_id = a
                  /\ c.created_at >= agg.start /\ c.created_at <= agg.end
                  /\ c.body_text # "system"

\* The input tickets whose closure falls to agent a.
CreditedClosures(a) ==
    {i \in DOMAIN agg.tickets :
        /\ agg.tickets[i].status \in {STATUS_RESOLVED, STATUS_CLOSED}
        /\ agg.tickets[i].closed_at >= agg.start /\ agg.tickets[i].closed_at <= agg.end
        /\ agg.tickets[i].responder_id = a
        /\ TouchedBy(a, agg.tickets[i].id)}

RECURSIVE SumClosed(_, _)
SumClosed(entries, i) ==
    IF i > Len(entries) THEN 0 ELSE entries[i].totalClosed + SumClosed(entries, i + 1)

RECURSIVE SumGroupClosed(_, _)
SumGroupClosed(entries, i) ==
    IF i > Len(entries) THEN 0 ELSE entries[i].closed + SumGroupClosed(entries, i + 1)

\* C19: a Resolved or Closed ticket whose closure lies in the window adds a closure
\* to its responder only if that responder has an in-window, non-system conversation
\* on that ticket; no other ticket changes any agent's totalClosed, daily closed
\* counts or group closed counts.
C19_ClosureNeedsContribution ==
    agg.pc = "done" =>
        /\ \A a \in AgentSet :
              /\ agg.activity[a].totalClosed = Cardinality(CreditedClosures(a))
              /\ SumClosed(agg.activity[a].dailyStats, 1) = Cardinality(CreditedClosures(a))
              /\ SumGroupClosed(agg.activity[a].groupStats, 1) = Cardinality(CreditedClosures(a))
        /\ \A k \in DOMAIN agg.summary :
              agg.summary[k].totalClosed = Cardinality(CreditedClosures(agg.summary[k].agentId))

\* A closed ticket of agent 2 on which only agent 1 worked, next to a closed ticket
\* of agent 1 on which agent 1 worked.
C19_Witness ==
    /\ agg.pc = "done"
    /\ Len(agg.tickets) = 2
    /\ agg.tickets[1].status = STATUS_CLOSED /\ agg.tickets[1].responder_id = 1
    /\ agg.tickets[1].closed_at = 46
    /\ agg.tickets[1].conversations = <<Conversation(1, 22, "long", FALSE)>>
    /\ agg.tickets[2].id = 200 /\ agg.tickets[2].status = STATUS_CLOSED
    /\ agg.tickets[2].responder_id = 2 /\ agg.tickets[2].closed_at = 46
    /\ agg.tickets[2].conversations = <<Conversation(1, 46, "spam", TRUE)>>
    /\ agg.activity[1].totalClosed = 1
    /\ agg.activity[2].totalClosed = 0

\* The input tickets that hold an in-window, non-system conversation of agent a.
TicketsWorkedBy(a) ==
    {i \in DOMAIN agg.tickets :
        \E k \in DOMAIN agg.tickets[i].conversations :
            LET c == agg.tickets[i].conversations[k]
            IN  /\ c.user_id = a
                /\ c.created_at >= agg.start /\ c.created_at <= agg.end
                /\ c.body_text # "system"}

\* C20: the ticketCount of an agent's record never exceeds the number of input
\* tickets with an in-window, non-system conversation of that agent, and counts a
\* ticket id once however many conversations it generated.
C20_TicketsCountedOnce ==
    agg.pc = "done" =>
        \A k \in DOMAIN agg.summary :
            LET a == agg.summary[k].agentId
            IN  /\ agg.summary[k].ticketCount <= Cardinality(TicketsWorkedBy(a))
                /\ agg.summary[k].ticketCount
                     = Cardinality({agg.tickets[i].id : i \in TicketsWorkedBy(a)})

\* Agent 1 wrote two qualifying conversations on the one ticket.
C20_Witness ==
    /\ agg.pc = "done"
    /\ Len(agg.tickets) = 1
    /\ agg.tickets[1].conversations
         = <<Conversation(1, 22, "long", FALSE), Conversation(1, 46, "spam", TRUE)>>
    /\ Len(agg.summary) = 1
    /\ agg.summary[1].agentId = 1
    /\ agg.summary[1].ticketCount = 1
    /\ agg.summary[1].totalAgentActivity = 2

\* ---- handleGenerateReport claims
\* C11: once the cancellation signal of a report generation has been aborted, that
\* generation never runs the aggregation engine and never publishes dashboard data,
\* wherever in the acquisition the abort arrives.
C11_CancelledReportDiscarded ==
    report.aborted => (~report.engineRan /\ ~report.dashboard)

\* Every ticket of every list has been augmented.
AllAugmented ==
    \A l \in DOMAIN report.convs : \A k \in DOMAIN report.convs[l] :
        report.convs[l][k].state = "done"

\* C15: a ticket whose conversation fetch fails is augmented with an empty
\* conversation list; the failure never ends the report, and every other ticket of
\* the batch and of the following batches is still processed, with its own thread.
C15_ConversationFailureIsSoft ==
    /\ \A l \in DOMAIN report.convs : \A k \in DOMAIN report.convs[l] :
          /\ report.convs[l][k].source = "error"
                => (report.convs[l][k].state = "done" /\ report.convs[l][k].data = <<>>)
          /\ report.convs[l][k].source = "network" => report.convs[l][k].data = ServerThread
    /\ report.pc \in {"failed", "cancelled"} => report.failedAt \in {"listing", "active"}
    /\ report.pc \in {"active", "published"} => AllAugmented

\* The last ticket of the first batch failed; its batch and the next one went through.
C15_Witness ==
    /\ report.pc = "published" /\ ~report.aborted
    /\ Len(report.lists[1]) = BATCH + 1
    /\ report.convs[1][BATCH].source = "error"
    /\ report.convs[1][BATCH - 1] = Augmented(ServerThread, "network")
    /\ report.convs[1][BATCH + 1] = Augmented(ServerThread, "network")

\* C16: tickets are processed in consecutive batches of at most 50. The outstanding
\* conversation fetches all belong to the current batch, every ticket before it has
\* resolved and no ticket after it has been touched, so at most 50 are outstanding.
C16_BatchesOfFifty ==
    report.pc = "augment" =>
        /\ \A l \in DOMAIN report.convs : \A k \in DOMAIN report.convs[l] :
              LET c == report.convs[l][k]
              IN  /\ (l < report.li \/ (l = report.li /\ k <= report.i)) => c.state = "done"
                  /\ (l > report.li \/ (l = report.li /\ k > report.i + BATCH))
                        => c.state = "none"
        /\ Cardinality(PendingPositions(report)) <= BATCH

\* The fifty tickets of the first batch have resolved; the fetch of the second
\* batch's only ticket is out.
C16_Witness ==
    /\ report.pc = "augment" /\ report.li = 1 /\ report.i = BATCH
    /\ PendingPositions(report) = {BATCH + 1}
    /\ \A k \in 1..BATCH : report.convs[1][k].source = "network"


\* ---- scenario: ticket #100
\* Ticket #100, Closed, responder agent 1, closed inside the window, with a public
\* reply of 80 characters and a private 'marked as spam' note, both of agent 1 and
\* both inside the window.
ScenarioTicket ==
    AggTicket(100, STATUS_CLOSED, 1, 46, 1,
              <<Conversation(1, 22, "long", FALSE), Conversation(1, 46, "spam", TRUE)>>)

ScenarioRan == agg.pc = "done" /\ agg.tickets = <<ScenarioTicket>>

\* The counts of the scenario's only record.
ScenarioCounts ==
    /\ Len(agg.summary) = 1
    /\ agg.summary[1].agentId = 1
    /\ agg.summary[1].totalResponses = 1
    /\ agg.summary[1].totalActions = 1
    /\ agg.summary[1].totalClosed = 1

\* C21: for the single ticket #100 of the scenario the engine returns one record for
\* the agent with responses = 1, actions = 1, closed = 1 and the minute range
\* min = 5 + 1 + 1 = 7, max = 7 + 2 + 2 = 11, which the constraint leaves unchanged.
C21_ScenarioTicket100 ==
    ScenarioRan =>
        /\ ScenarioCounts
        /\ agg.summary[1].totalMin = 7 /\ agg.summary[1].totalMax = 11
        /\ agg.summary[1].totalMin = agg.activity[1].totalMin
        /\ agg.summary[1].totalMax = agg.activity[1].totalMax

\* The scenario as stated: the range is min = 4, max = 7.
C21_ScenarioAsStated ==
    ScenarioRan =>
        /\ ScenarioCounts
        /\ agg.summary[1].totalMin = 4 /\ agg.summary[1].totalMax = 7

\* The scenario has been computed, in either runtime timezone.
C21_Witness ==
    /\ ScenarioRan
    /\ agg.summary[1].ticketCount = 1
    /\ agg.activity[1].totalMin = 7 /\ agg.activity[1].totalMax = 11


\* min <= max <= ceil(1.5 * min), and max = 0 when min = 0.
RangeTight(min, max) ==
    /\ min <= max
    /\ 2 * max <= 3 * min + 1
    /\ min = 0 => max = 0

\* C22: in the returned records every agent total and every daily breakdown entry
\* has min <= max <= ceil(1.5 * min), with max = 0 when min = 0.
C22_TimeRangeMonotonic ==
    agg.pc = "done" =>
        \A k \in DOMAIN agg.summary :
            /\ RangeTight(agg.summary[k].totalMin, agg.summary[k].totalMax)
            /\ \A d \in DOMAIN agg.summary[k].dailyBreakdown :
                  RangeTight(agg.summary[k].dailyBreakdown[d].totalMin,
                             agg.summary[k].dailyBreakdown[d].totalMax)

\* A spam note and a closure add up to 2-4 minutes, returned as 2-3; the day of the
\* closure carries 1-2 and the agent has a day with no minutes at all.
C22_Witness ==
    /\ agg.pc = "done"
    /\ agg.activity[1].totalMin = 2 /\ agg.activity[1].totalMax = 4
    /\ \E k \in DOMAIN agg.summary :
          /\ agg.summary[k].agentId = 1
          /\ agg.summary[k].totalMin = 2 /\ agg.summary[k].totalMax = 3
          /\ \E d \in DOMAIN agg.summary[k].dailyBreakdown :
                /\ agg.summary[k].dailyBreakdown[d].totalMin = 1
                /\ agg.summary[k].dailyBreakdown[d].totalMax = 2


\* The calendar day of an instant at the fixed display offset UTC+2.
SADay(at) == (at + SA_OFFSET_HOURS) \div HOURS_PER_DAY

\* The days, at UTC+2, of agent a's counted conversations and credited closures.
DaysWorked(a) ==
    {SADay(agg.tickets[i].conversations[k].created_at) :
        <<i, k>> \in {x \in (DOMAIN agg.tickets) \X (1..MaxThread) :
                        /\ x[2] \in DOMAIN agg.tickets[x[1]].conversations
                        /\ agg.tickets[x[1]].conversations[x[2]].user_id = a
                        /\ Qualifies(agg.tickets[x[1]].conversations[x[2]],
                                     agg.start, agg.end)}}
    \cup {SADay(agg.tickets[i].closed_at) : i \in CreditedClosures(a)}

\* C23: a conversation or closure is counted under the calendar day of its instant
\* at UTC+2, whatever the local timezone of the runtime: the days of an agent's
\* daily statistics are exactly the UTC+2 days of its counted events.
C23_DayAtFixedOffset ==
    agg.pc = "done" =>
        \A a \in AgentSet :
            {agg.activity[a].dailyStats[i].key : i \in DOMAIN agg.activity[a].dailyStats}
                = DaysWorked(a)


\* The orderings of a sequence.
Reorderings(seq) ==
    {[i \in DOMAIN seq |-> seq[p[i]]] : p \in Permutations(DOMAIN seq)}

\* One ordering of its conversations for each ticket of ts.
ThreadOrderings(ts) ==
    {f \in [DOMAIN ts -> UNION {Reorderings(ts[i].conversations) : i \in DOMAIN ts}] :
        \A i \in DOMAIN ts : f[i] \in Reorderings(ts[i].conversations)}

\* The input lists that hold the same tickets, each with the same conversations,
\* in any order.
ReorderedInputs(tickets) ==
    UNION {{[i \in DOMAIN ts |-> [ts[i] EXCEPT !.conversations = th[i]]] :
                th \in ThreadOrderings(ts)} : ts \in Reorderings(tickets)}

RECURSIVE Pass1All(_, _, _, _)
Pass1All(activity, tickets, i, a) ==
    IF i > Len(tickets) THEN activity
    ELSE Pass1All(Pass1(activity, tickets[i], a), tickets, i + 1, a)

RECURSIVE Pass2All(_, _, _, _)
Pass2All(activity, tickets, i, a) ==
    IF i > Len(tickets) THEN activity
    ELSE Pass2All(Pass2(activity, tickets[i], a), tickets, i + 1, a)

\* What the engine returns for a list of tickets, under the call's window and runtime.
EngineOutput(tickets, a) ==
    Summarise(Pass2All(Pass1All([id \in AgentSet |-> NewAgentData], tickets, 1, a),
                       tickets, 1, a))

\* C24: the engine is insensitive to input ordering: the same tickets, and the same
\* conversations of each ticket, in any order give the same ordered output (agent
\* records, their dailyBreakdown and their groupStats order).
C24_OrderInsensitive ==
    agg.pc = "done" =>
        \A ts \in ReorderedInputs(agg.tickets) : EngineOutput(ts, agg) = agg.summary


\* The input tickets have distinct ids.
DistinctIds ==
    \A i, j \in DOMAIN agg.tickets : agg.tickets[i].id = agg.tickets[j].id => i = j

\* C30: for input tickets with distinct ids, every returned record has
\* totalClosed <= ticketCount and ticketCount >= 1, and the closed counts of its
\* groupStats add up to its totalClosed.
C30_ClosedWithinWorked ==
    (agg.pc = "done" /\ DistinctIds) =>
        \A k \in DOMAIN agg.summary :
            /\ agg.summary[k].totalClosed <= agg.summary[k].ticketCount
            /\ agg.summary[k].ticketCount >= 1
            /\ SumGroupClosed(agg.summary[k].groupStats, 1) = agg.summary[k].totalClosed

\* Agent 1 worked on and closed both tickets, in two groups; agent 2 is responder of
\* neither and has no record.
C30_Witness ==
    /\ agg.pc = "done" /\ DistinctIds
    /\ Len(agg.tickets) = 2
    /\ agg.tickets[2].group_id = 2
    /\ Len(agg.summary) = 1
    /\ agg.summary[1].agentId = 1
    /\ agg.summary[1].ticketCount = 2
    /\ agg.summary[1].totalClosed = 2
    /\ Len(agg.summary[1].groupStats) = 2


\* ---- admission order
\* C25: tasks are started in the order schedule() was called (tasks are numbered in
\* that order) and each task is started at most once, whatever the interleaving of
\* schedule calls, completions, timers and global backoff: the j-th start is that of
\* task j, and the queue holds the tasks scheduled after the last start, in order.
C25_StartsInScheduleOrder ==
    /\ \A j \in DOMAIN startLog : startLog[j].task = j
    /\ queue = [i \in 1..(nextTask - 1 - Len(startLog)) |-> Len(startLog) + i]

\* One slot and a global backoff: task 1 started at once, task 2 later and
\* task 3 later still, after task 2 had settled.
C25_Witness ==
    /\ maxConcurrent = 1
    /\ Len(startLog) = NumTasks
    /\ promisedUntil > 0
    /\ startLog[1].at = 0
    /\ startLog[2].at > 0
    /\ startLog[3].at > startLog[2].at
    /\ Len(doneLog) >= 2 /\ doneLog[2].task = 2


\* C27: the global backoff deadline never moves earlier: a setGlobalBackoff call made
\* while a later deadline is pending leaves the deadline at least where it was.
C27_DeadlineNeverEarlier == [][globalRetryAfter' >= globalRetryAfter]_vars


\* The list-mode pages after the first that ended with one of the kinds.
LaterPagesEnded(kinds) == {p \in DOMAIN pager.settled : pager.settled[p] \in kinds}

\* The call returned, as a success, the items of the pages before page p.
ReturnedPagesBefore(p) ==
    /\ pager.pc = "returned"
    /\ pager.page = p
    /\ pager.allResults = Range(1, LIST_PAGE_SIZE * (p - 1))

\* C26: in list mode a non-OK response on page 1 is raised to the caller; a non-OK
\* response that executeRequest hands back on a later page (401, 403 and the like)
\* stops the pagination and the items of the earlier pages are returned as a
\* success; a 429/503 past the retry budget or a non-JSON 404 on a later page is
\* raised to the caller like any thrown error.
C26_ListNotOkFirstRaisedLaterPartial ==
    ~pager.search =>
        /\ pager.first \in NonOkResponses => (pager.pc = "threw" /\ pager.allResults = <<>>)
        /\ \A p \in LaterPagesEnded({"status"}) : ReturnedPagesBefore(p)
        /\ LaterPagesEnded({"busy", "html404"}) # {} => pager.pc = "threw"

\* As stated: every non-OK response on a later page ends the call with the earlier
\* pages' items as a success.
C26_ListEveryNotOkLaterPartial ==
    ~pager.search =>
        /\ pager.first \in NonOkResponses => (pager.pc = "threw" /\ pager.allResults = <<>>)
        /\ \A p \in LaterPagesEnded(NonOkResponses) : ReturnedPagesBefore(p)

\* Pages 1 and 2 were full, page 3 was answered 401/403: 200 items are returned.
C26_Witness ==
    /\ ~pager.search
    /\ pager.first = "ok"
    /\ pager.requested = <<1, 2, 3>>
    /\ LaterPagesEnded({"ok"}) = {2}
    /\ LaterPagesEnded({"status"}) = {3}
    /\ pager.pc = "returned"
    /\ Len(pager.allResults) = 2 * LIST_PAGE_SIZE


\* C28: the conversation cache only ever holds threads obtained from a successful
\* network fetch: the failed or cancelled fetch of a ticket writes no entry, so no
\* ticket is ever augmented from the cache with anything but its server thread.
C28_CacheOnlySuccessfulFetches ==
    /\ \A t \in DOMAIN store.items : store.items[t].data = ServerThread
    /\ \A l \in DOMAIN report.convs : \A k \in DOMAIN report.convs[l] :
          /\ report.convs[l][k].source = "error"
                => report.lists[l][k] \notin DOMAIN store.items
          /\ report.convs[l][k].source = "cache" => report.convs[l][k].data = ServerThread


\* ---- cache freshness
\* A lookup that hits returns the thread the helpdesk holds.
C29_HitStep ==
    (IsLookupStep /\ store'.last.result.hit)
        => store'.last.result.data = server.thread[store'.last.ticket]

\* C29: a cache hit never returns a stale thread: a lookup made with the ticket's
\* current updated_at either misses or returns the thread the helpdesk holds, also
\* when the ticket gained a conversation after its thread was read and before the
\* entry was stamped.
C29_NoStaleHit == [][C29_HitStep]_vars

====
